---- MODULE Spec2Model ----
(***************************************************************************)
(* The k6 websocket load scripts of cluster-testing as one state machine.  *)
(*                                                                         *)
(* Every virtual user (VU) repeats the exported default function: sign in  *)
(* (cached per VU), fetch a websocket ticket, open the socket and run the  *)
(* STOMP session in the socket's event loop (open, message, error, close   *)
(* handlers, the send interval, the refresh interval and the session       *)
(* timeout), then sleep.  teardown() sums the pending-probe maps.          *)
(*                                                                         *)
(* `script` selects which file is being run:                               *)
(*   "new" = src/k6-ws-new.js,  "min" = src/k6-ws-new-min.js.              *)
(* Date.now() is the variable `now`, in milliseconds, non-decreasing.      *)
(* A synchronous http call made inside a handler blocks the VU's event     *)
(* loop; the time it takes is added to `now` by the action that makes it.  *)
(*                                                                         *)
(* The handler of the second script of src/ws-script.js ("old") is kept    *)
(* for comparison with k6-ws-new-min.js.  The registration stage           *)
(* (registerUsers of src/k6-init-new.js and src/unnamed/part_000), chat    *)
(* creation (createChats of both and the second script of part_000), the   *)
(* two scenarios of part_000 on one clock, the first script of             *)
(* src/ws-script.js and the run of src/whisp-e2e.js are separate           *)
(* specifications over the same variables.                                 *)
(***************************************************************************)
EXTENDS Integers, FiniteSets, Sequences, Bags, TLC

\* ---------------------------------------------------------------- bounds
MaxTime    == 2    \* Date.now() ranges over 0..MaxTime
MaxIter    == 2    \* iterations of the default function in one run
MaxEvents  == 3    \* message and error events delivered in one run
MaxSent    == 2    \* cap on messages_sent_total
MaxChatReq == 2    \* cap on get_chat_req_total
RunEvents  == 2    \* events delivered in a run of several iterations
RunSent    == 1    \* messages_sent_total in a run of several iterations
RunChatReq == 2    \* get_chat_req_total in a run of several iterations
MaxBody    == 2    \* characters in an encoded body
MaxHeaders == 2    \* headers in an encoded frame
MaxRegIter == 2    \* iterations of registerUsers by one VU
MaxChatIter == 2   \* iterations of the chat-creating function by one VU
MaxListeners == 2  \* pings one session of the first ws-script.js sends
MaxInbox == 2      \* messages delivered to the receiver's inbox
MaxWait == 2       \* time units a waitForMessage promise is followed
MaxSettles == 2    \* calls of resolve and reject that are followed
MaxElapsed == 21   \* half minutes of the two-scenario run that are followed

\* ------------------------------------------------- program configuration
TOTAL_USERS     == 2       \* number of virtual users (scaled down)
MAX_CHAT_PEERS  == 100     \* chats one VU creates at most
WS_MESSAGE_TIMEOUT_MS == 1 \* waitForMessage gives up after this (scaled)
GracefulStop    == 1       \* half minutes a scenario's running iterations
                           \* get to finish after its stages (30 s)
SESSION_TIME_MS == 1       \* session lifetime (scaled down)

VUs    == 1..TOTAL_USERS
Time   == 0..MaxTime
Chats  == {1, 2}
NoNonce == -1

Scripts == {"new", "min"}

\* The chat lists getChats can return: [] on any failure, else the ids.
ChatResponses == {<<>>, <<1>>, <<1, 2>>}

\* The chats of a getChats response in which a chat may lack its chatId
\* (written 0).
RawChatLists == ChatResponses \cup {<<0>>, <<0, 1>>}

\* The responses to getChats: 200 with a chats array, 200 with a body
\* that has none, and a status other than 200.
GetChatsResponses ==
    {[status |-> 200, array |-> TRUE, chats |-> c] : c \in ChatResponses}
        \cup {[status |-> st, array |-> FALSE, chats |-> <<>>] :
                  st \in {200, 500}}

\* Frames the server can deliver.  sender is the body's senderId relative to
\* the receiving session ("self" = its own userId).
Frames ==
    {[cmd |-> c, nonce |-> NoNonce, sender |-> "none"] :
        c \in {"CONNECTED", "ERROR", "RECEIPT"}}
    \cup {[cmd |-> "MESSAGE", nonce |-> n, sender |-> "self"] : n \in Time}
    \cup {[cmd |-> "MESSAGE", nonce |-> n, sender |-> "other"] :
        n \in {NoNonce, 0}}

EmptyMap == [n \in {} |-> 0]

NoCreds == [userId |-> 0, jwt |-> 0]

\* ---------------------------------------------------------- the frame codec

\* Wire text is a sequence of characters.  LF is '\n', NUL is '\0'; a
\* command word such as "SEND" stands for its letters and is one element.
LF  == "LF"
NUL == "NUL"

\* An absent argument (undefined) and a string are different values.
Absent == [present |-> FALSE, text |-> <<>>]
Text(t) == [present |-> TRUE, text |-> t]

\* s.indexOf(c), counted from 1; 0 when c does not occur.
IndexOf(s, c) ==
    IF \E i \in 1..Len(s) : s[i] = c
    THEN CHOOSE i \in 1..Len(s) :
           s[i] = c /\ \A j \in 1..(i - 1) : s[j] # c
    ELSE 0

\* s.indexOf('\n\n'), counted from 1; 0 when there is no blank line.
IndexOfBlank(s) ==
    IF \E i \in 1..(Len(s) - 1) : s[i] = LF /\ s[i + 1] = LF
    THEN CHOOSE i \in 1..(Len(s) - 1) :
           /\ s[i] = LF /\ s[i + 1] = LF
           /\ \A j \in 1..(i - 1) : ~(s[j] = LF /\ s[j + 1] = LF)
    ELSE 0

\* s.split('\n')
RECURSIVE Split(_)
Split(s) ==
    LET i == IndexOf(s, LF) IN
    IF i = 0 THEN <<s>>
    ELSE <<SubSeq(s, 1, i - 1)>> \o Split(SubSeq(s, i + 1, Len(s)))

\* headers[k] = v on an object kept as the list of its <<key, value>>
\* pairs in insertion order: an existing key keeps its place.
Put(hs, k, v) ==
    IF \E i \in 1..Len(hs) : hs[i][1] = k
    THEN [i \in 1..Len(hs) |-> IF hs[i][1] = k THEN <<k, v>> ELSE hs[i]]
    ELSE Append(hs, <<k, v>>)

\* for (const k in headers) frame += `${k}:${headers[k]}\n`
RECURSIVE HeaderLines(_)
HeaderLines(hs) ==
    IF hs = <<>> THEN <<>>
    ELSE Head(hs)[1] \o <<":">> \o Head(hs)[2] \o <<LF>>
         \o HeaderLines(Tail(hs))

\* stompFrame(command, headers, body); every call passes a headers object.
stompFrame(command, headers, body) ==
    command \o <<LF>> \o HeaderLines(headers) \o <<LF>>
    \o (IF body.present /\ body.text # <<>> THEN body.text ELSE <<>>)
    \o <<NUL>>

\* The header loop of parseStompFrame over lines[1..]: empty lines and
\* lines whose first ':' is missing or leads the line are skipped.
RECURSIVE ParseHeaders(_, _)
ParseHeaders(lines, acc) ==
    IF lines = <<>> THEN acc
    ELSE LET line == Head(lines)
             idx == IndexOf(line, ":")
         IN IF line = <<>> \/ idx <= 1
            THEN ParseHeaders(Tail(lines), acc)
            ELSE ParseHeaders(Tail(lines),
                     Put(acc, SubSeq(line, 1, idx - 1),
                         SubSeq(line, idx + 1, Len(line))))

\* What parseStompFrame returns: null, { command: 'HEARTBEAT' }, or
\* { command, headers, body }.
Null == [tag |-> "null", command |-> <<>>, headers |-> <<>>, body |-> Absent]

HeartbeatMarker ==
    [tag |-> "heartbeat", command |-> <<"HEARTBEAT">>, headers |-> <<>>,
     body |-> Absent]

\* parseStompFrame past its two early returns: strip the terminator, cut
\* at the first blank line, split the head into lines.
ParseFrame(raw) ==
    LET s == IF raw[Len(raw)] = NUL
             THEN SubSeq(raw, 1, Len(raw) - 1) ELSE raw
        splitIdx == IndexOfBlank(s)
        head == IF splitIdx > 0 THEN SubSeq(s, 1, splitIdx - 1) ELSE s
        body == IF splitIdx > 0
                THEN SubSeq(s, splitIdx + 2, Len(s)) ELSE <<>>
        lines == Split(head)
    IN [tag |-> "frame", command |-> lines[1],
        headers |-> ParseHeaders(Tail(lines), <<>>),
        body |-> Text(body)]

\* A decoder without the heartbeat test.
parseStompFrame_NoHeartbeat(raw) ==
    IF raw = <<>> THEN Null ELSE ParseFrame(raw)

parseStompFrame(raw) ==
    IF raw = <<>> THEN Null
    ELSE IF raw = <<LF>> THEN HeartbeatMarker
    ELSE ParseFrame(raw)

\* The inputs the codec is applied to.
Commands == {<<"CONNECTED">>, <<"ERROR">>, <<"SEND">>}
HeaderKeys == {<<"k">>, <<"d">>}
HeaderValues == {<<>>, <<"a">>, <<"a", ":">>}
BodyChars == {"a", ":", LF}

\* Header objects: up to MaxHeaders pairs with distinct keys.
HeaderMaps ==
    {h \in UNION {[1..n -> HeaderKeys \X HeaderValues] : n \in 0..MaxHeaders} :
        \A i, j \in 1..Len(h) : i # j => h[i][1] # h[j][1]}

Bodies ==
    {Absent} \cup {Text(t) : t \in UNION {[1..n -> BodyChars] : n \in 0..MaxBody}}

\* Payloads that are not the encoding of a frame: the heartbeat, and text
\* whose first line is empty.
RawPayloads ==
    {<<LF>>, <<NUL>>, <<LF, NUL>>, <<LF, "a">>, <<LF, LF, "a", NUL>>}

\* No (command, headers, body) has been encoded yet.
NoInput == [command |-> <<>>, headers |-> <<>>, body |-> Absent]

\* parseStompFrame has not been applied to the text on the wire.
NotDecoded ==
    [tag |-> "none", command |-> <<>>, headers |-> <<>>, body |-> Absent]

VARIABLES
    script,           \* which script file runs
    refreshEnv,       \* the environment variable CHAT_REFRESH_MS
    now,              \* Date.now()
    pc,               \* per VU: position in the default function
    iter,             \* per VU: iterations started
    userCreds,        \* per VU: cached credentials (NoCreds = absent)
    globalPending,    \* set of VUs with a key in globalPending; the value
                      \* of key vu is the object pending[vu] (same reference)
    pending,          \* per VU: the pending map of its latest session
    state,            \* per VU: session state CONNECTING / CHATTING
    chatIds,          \* per VU: session chat id list
    opened,           \* per VU: the open handler has run
    deadline,         \* per VU: when the session timeout is due (-1 none)
    refreshTimers,    \* per VU: refresh intervals registered on the socket
    sent,             \* per VU: commands of the frames the session sent
    subscribed,       \* per VU: the user id in the destination of the
                      \* session's latest SUBSCRIBE (0 = none sent)
    wsErrors, stompErrors, msgRTT, messagesReceived, messagesSent,
    getChatReq, undeliveredMessages,     \* the k6 metrics
    tornDown,         \* teardown() has run
    events,           \* message and error events delivered so far
    regN, resN,       \* per VU, per nonce: registrations / resolutions
                      \* recorded for the map pending[vu] (history)
    sessErrs,         \* per VU: protocol errors counted in current session
    scen,             \* per VU: progress of the frame sequence
                      \* CONNECTED, ERROR, matching MESSAGE (history)
    abandoned,        \* sum over ended sessions of entries left pending
    nSessions,        \* per VU: sessions whose callback has run
    last,             \* the operation of the last step (history)
    cin,              \* the (command, headers, body) last encoded
    wire,             \* the latest encoded text, or payload on VU 1's socket
    decoded,          \* what parseStompFrame returned for wire
    ramp,             \* the stage of options.stages and its current target
    regScript,        \* which registration script runs
    regIter,          \* per VU: __ITER, iterations of registerUsers done
    registerReqs,     \* per VU: registerUser requests issued
    signinReqs,       \* per VU: signin requests issued by registerUsers
    registrationErrors,   \* the metric registration_error_count
    regPc,            \* per VU: position in registerUsers (idle / sleep)
    elapsed,          \* time since the start of the run, in half minutes
    chatScript,       \* which chat-creating function runs
    chatPc,           \* per VU: position in that function (idle / loop)
    chatIter,         \* per VU: iterations of that function started
    chatI,            \* per VU: the loop variable i
    created,          \* per VU: chats created in this iteration
    peer,             \* per VU: otherUserNum of its latest createChat
                      \* request (0 = none yet)
    chatCreationErrors,   \* the metric chat_creation_error_count
    listeners,        \* per VU: the message listeners its send ticks
                      \* registered, each with its nonce and start time
    e2eStep,          \* main of whisp-e2e.js: index of the next step, or
                      \* 0 after process.exit
    exitCode,         \* -1 while main runs, else the way the run ended
    registered,       \* the users main has registered
    deleted,          \* the users main has deleted
    clients,          \* per user: its STOMP client (none / connected /
                      \* deactivated)
    inbox,            \* the receiver's inbox
    polling,          \* the interval of waitForMessage is set
    outcome,          \* the promise of waitForMessage
    resolvedWith,     \* index in inbox of the message it resolved with
    settles,          \* calls of resolve and reject so far
    waited            \* Date.now() - started, in the promise's time unit

vars == <<script, refreshEnv, now, pc, iter, userCreds, globalPending, pending, state,
          chatIds, opened, deadline, refreshTimers, sent, subscribed,
          wsErrors, stompErrors, msgRTT, messagesReceived, messagesSent,
          getChatReq,
          undeliveredMessages, tornDown, events, regN, resN, sessErrs,
          scen, abandoned, nSessions, last, cin, wire, decoded,
          ramp, regScript, regIter, registerReqs, signinReqs,
          registrationErrors, regPc, elapsed, chatScript, chatPc, chatIter,
          chatI, created, peer, chatCreationErrors, listeners, e2eStep,
          exitCode, registered, deleted, clients, inbox, polling, outcome,
          resolvedWith, settles, waited>>

metrics == <<wsErrors, stompErrors, msgRTT, messagesReceived, messagesSent,
             getChatReq, undeliveredMessages>>

session == <<pending, state, chatIds, opened, deadline, refreshTimers, sent,
             subscribed>>

codec == <<cin, wire, decoded>>

config == <<script, refreshEnv>>

registration ==
    <<regScript, regIter, registerReqs, signinReqs, registrationErrors>>

chatCreation ==
    <<chatScript, chatPc, chatIter, chatI, created, peer, chatCreationErrors>>

\* Everything of the scripts that prepare the users and chats.
provisioning == <<registration, regPc, chatCreation, elapsed>>

\* The promise of waitForMessage and what it polls.
waiting ==
    <<inbox, polling, outcome, resolvedWith, settles, waited>>

\* The run of whisp-e2e.js.
e2e == <<e2eStep, exitCode, registered, deleted, clients, waiting>>

\* The state of the scripts other than k6-ws-new.js and its variants.
otherScripts == <<provisioning, listeners, e2e>>

\* The registration scripts: "init" = src/k6-init-new.js,
\* "part" = src/unnamed/part_000.
RegScripts == {"init", "part"}

\* The statuses registerUser answers with: created, user exists, failure.
RegStatuses == {201, 400, 500}

\* What __ENV.CHAT_REFRESH_MS can be: not set, or the text of a number.
EnvValues == {"unset", "0", "1"}

\* +(x): the number the text x stands for, NaN when x is undefined.
ToNumber(x) == [nan |-> x = "unset", n |-> IF x = "1" THEN 1 ELSE 0]

\* a || d for a number a: d when a is NaN or 0.
OrDefault(a, d) == IF a.nan \/ a.n = 0 THEN d ELSE a.n

\* const CHAT_REFRESH_MS = +(__ENV.CHAT_REFRESH_MS) || 30000
CHAT_REFRESH_MS == OrDefault(ToNumber(refreshEnv), 30000)

history == <<regN, resN, sessErrs, scen, abandoned, nSessions>>

ZeroN == [n \in Time |-> 0]

NoFrame == [cmd |-> "none", nonce |-> NoNonce, sender |-> "none"]

Op(o, v) ==
    [op |-> o, vu |-> v, frame |-> NoFrame, rtt |-> -1, chatId |-> 0,
     chats |-> <<>>, fetched |-> TRUE]

\* The state after the init code of the script and before any iteration.
Constructed ==
    /\ script \in Scripts
    /\ now = 0
    /\ pc = [v \in VUs |-> "start"]
    /\ iter = [v \in VUs |-> 0]
    /\ userCreds = [v \in VUs |-> NoCreds]
    /\ globalPending = {}
    /\ pending = [v \in VUs |-> EmptyMap]
    /\ state = [v \in VUs |-> "CONNECTING"]
    /\ chatIds = [v \in VUs |-> <<>>]
    /\ opened = [v \in VUs |-> FALSE]
    /\ deadline = [v \in VUs |-> -1]
    /\ refreshTimers = [v \in VUs |-> 0]
    /\ sent = [v \in VUs |-> <<>>]
    /\ subscribed = [v \in VUs |-> 0]
    /\ wsErrors = 0
    /\ stompErrors = 0
    /\ msgRTT = EmptyBag
    /\ messagesReceived = 0
    /\ messagesSent = 0
    /\ getChatReq = 0
    /\ undeliveredMessages = 0
    /\ tornDown = FALSE
    /\ events = 0
    /\ regN = [v \in VUs |-> ZeroN]
    /\ resN = [v \in VUs |-> ZeroN]
    /\ sessErrs = [v \in VUs |-> 0]
    /\ scen = [v \in VUs |-> 0]
    /\ abandoned = 0
    /\ nSessions = [v \in VUs |-> 0]
    /\ last = Op("init", 0)
    /\ cin = NoInput
    /\ wire = <<>>
    /\ decoded = NotDecoded
    /\ ramp = [stage |-> 1, target |-> 0]
    /\ regIter = [v \in VUs |-> 0]
    /\ registerReqs = [v \in VUs |-> 0]
    /\ signinReqs = [v \in VUs |-> 0]
    /\ registrationErrors = 0
    /\ regPc = [v \in VUs |-> "idle"]
    /\ elapsed = 0
    /\ chatPc = [v \in VUs |-> "idle"]
    /\ chatIter = [v \in VUs |-> 0]
    /\ chatI = [v \in VUs |-> 0]
    /\ created = [v \in VUs |-> 0]
    /\ peer = [v \in VUs |-> 0]
    /\ chatCreationErrors = 0
    /\ listeners = [v \in VUs |-> <<>>]
    /\ e2eStep = 1
    /\ exitCode = -1
    /\ registered = {}
    /\ deleted = {}
    /\ clients = [u \in {"sender", "receiver"} |-> "none"]
    /\ inbox = <<>>
    /\ polling = FALSE
    /\ outcome = "none"
    /\ resolvedWith = 0
    /\ settles = 0
    /\ waited = 0

\* A run that leaves CHAT_REFRESH_MS to its default; the users were
\* registered by k6-init-new.js.
Init ==
    /\ Constructed /\ refreshEnv = "unset"
    /\ regScript = "init" /\ chatScript = "init"

\* ------------------------------------------------------------- helpers

\* delete pending[nonce]
Delete(p, n) == [m \in (DOMAIN p) \ {n} |-> p[m]]

\* pending[nonce] = ts (an existing entry for the nonce is overwritten)
Register(p, n, ts) == (n :> ts) @@ p

Size(p) == Cardinality(DOMAIN p)

\* msgRTT.add(x)
TrendAdd(t, x) == t (+) SetToBag({x})

Samples(t) == BagCardinality(t)

Bump(f, v) == [f EXCEPT ![v] = @ + 1]

\* The sum of f over the set S.
RECURSIVE Sum(_, _)
Sum(f, S) ==
    IF S = {} THEN 0
    ELSE LET x == CHOOSE y \in S : TRUE IN f[x] + Sum(f, S \ {x})

\* ------------------------------------------------ the default function

\* A cache test that never finds the credentials.
HasCreds_Never(v) == FALSE

\* !userCreds[vu] is false: this VU's credentials are cached.
HasCreds(v) == userCreds[v] # NoCreds

\* Start of an iteration: sign in unless this VU's credentials are cached.
\* A failed sign-in ends the iteration (k6-ws-new.js counts a ws error).
BeginIteration(v) ==
    /\ ~tornDown
    /\ pc[v] = "start"
    /\ Sum(iter, VUs) < MaxIter
    /\ iter' = Bump(iter, v)
    /\ IF HasCreds(v)
       THEN /\ pc' = [pc EXCEPT ![v] = "ticket"]
            /\ UNCHANGED <<userCreds, wsErrors>>
            /\ last' = Op("cached", v)
       ELSE \/ /\ userCreds' = [userCreds EXCEPT
                                   ![v] = [userId |-> v, jwt |-> iter[v] + 1]]
               /\ pc' = [pc EXCEPT ![v] = "ticket"]
               /\ UNCHANGED wsErrors
               /\ last' = Op("signin", v)
            \/ /\ wsErrors' = IF script = "new" THEN wsErrors + 1 ELSE wsErrors
               /\ UNCHANGED <<userCreds, pc>>
               /\ last' = Op("signinFailed", v)
    /\ UNCHANGED <<codec, ramp, config, otherScripts, now, globalPending, session, stompErrors, msgRTT,
                   messagesReceived, messagesSent, getChatReq,
                   undeliveredMessages, tornDown, events, history>>

\* getTicket: a ticket, or the iteration ends.
GetTicket(v) ==
    /\ pc[v] = "ticket"
    /\ \/ /\ pc' = [pc EXCEPT ![v] = "connect"]
          /\ UNCHANGED wsErrors
          /\ last' = Op("ticket", v)
       \/ /\ pc' = [pc EXCEPT ![v] = "start"]
          /\ wsErrors' = IF script = "new" THEN wsErrors + 1 ELSE wsErrors
          /\ last' = Op("ticketFailed", v)
    /\ UNCHANGED <<codec, ramp, config, otherScripts, now, iter, userCreds, globalPending, session,
                   stompErrors, msgRTT, messagesReceived, messagesSent,
                   getChatReq, undeliveredMessages, tornDown, events,
                   history>>

\* A default function that connects without waiting for its ticket.
HoldsTicket_Skipped(v) == pc[v] \in {"ticket", "connect"}

\* The default function has reached ws.connect: getTicket returned a
\* ticket in this iteration and the url was built from it.
HoldsTicket(v) == pc[v] = "connect"

\* ws.connect.  k6-ws-new.js creates the pending map and stores it in
\* globalPending before connecting; k6-ws-new-min.js does so inside the
\* callback, which runs only when the handshake succeeds.  The callback
\* initialises the session's closure variables.
WsConnect(v) ==
    /\ HoldsTicket(v)
    /\ \/ /\ pc' = [pc EXCEPT ![v] = "session"]
          /\ pending' = [pending EXCEPT ![v] = EmptyMap]
          /\ globalPending' = globalPending \cup {v}
          /\ state' = [state EXCEPT ![v] = "CONNECTING"]
          /\ chatIds' = [chatIds EXCEPT ![v] = <<>>]
          /\ opened' = [opened EXCEPT ![v] = FALSE]
          /\ deadline' = [deadline EXCEPT ![v] = -1]
          /\ refreshTimers' = [refreshTimers EXCEPT ![v] = 0]
          /\ sent' = [sent EXCEPT ![v] = <<>>]
          /\ subscribed' = [subscribed EXCEPT ![v] = 0]
          /\ regN' = [regN EXCEPT ![v] = ZeroN]
          /\ resN' = [resN EXCEPT ![v] = ZeroN]
          /\ sessErrs' = [sessErrs EXCEPT ![v] = 0]
          /\ scen' = [scen EXCEPT ![v] = 0]
          /\ nSessions' = Bump(nSessions, v)
          /\ UNCHANGED abandoned
          /\ last' = Op("connect", v)
       \/ /\ pc' \in {[pc EXCEPT ![v] = "sleep"], [pc EXCEPT ![v] = "start"]}
          /\ IF script = "new"
             THEN /\ pending' = [pending EXCEPT ![v] = EmptyMap]
                  /\ globalPending' = globalPending \cup {v}
                  /\ regN' = [regN EXCEPT ![v] = ZeroN]
                  /\ resN' = [resN EXCEPT ![v] = ZeroN]
             ELSE UNCHANGED <<pending, globalPending, regN, resN>>
          /\ UNCHANGED <<state, chatIds, opened, deadline, refreshTimers,
                         sent, subscribed, sessErrs, scen, abandoned,
                         nSessions>>
          /\ last' = Op("connectFailed", v)
    /\ UNCHANGED <<codec, ramp, config, otherScripts, now, iter, userCreds, metrics, tornDown, events>>

\* socket.on('open'): send CONNECT; k6-ws-new.js also arms the session
\* timeout.
Open(v) ==
    /\ pc[v] = "session"
    /\ ~opened[v]
    /\ opened' = [opened EXCEPT ![v] = TRUE]
    /\ sent' = [sent EXCEPT ![v] = Append(@, "CONNECT")]
    /\ deadline' = [deadline EXCEPT
                       ![v] = IF script = "new" THEN now + SESSION_TIME_MS
                              ELSE -1]
    /\ last' = Op("open", v)
    /\ UNCHANGED <<codec, ramp, config, otherScripts, now, pc, iter, userCreds, globalPending, pending,
                   state, chatIds, refreshTimers, subscribed, metrics,
                   tornDown, events, history>>

\* ------------------------------------------------- the message handler

\* text.match(/"ping:(\d+)"/) of k6-ws-new-min.js, applied to the raw text:
\* the JSON body of a MESSAGE carrying ping:<nonce> matches.
HasPing(f) == f.cmd = "MESSAGE" /\ f.nonce # NoNonce

\* The handler takes the CONNECTED path (send SUBSCRIBE, fetch the chats):
\* k6-ws-new.js on every CONNECTED frame, k6-ws-new-min.js only when the
\* frame arrives in CONNECTING (in CHATTING it returns before the test).
TakesConnected(sc, st, f) ==
    IF sc = "new" THEN f.cmd = "CONNECTED"
    ELSE st = "CONNECTING" /\ f.cmd = "CONNECTED"

\* A handler that enters CHATTING on whatever frame arrives.
NextState_AnyFrame(sc, st, f) == "CHATTING"

\* state after the handler has run
NextState(sc, st, f) ==
    IF TakesConnected(sc, st, f) THEN "CHATTING" ELSE st

\* A handler that counts protocol errors only before CONNECTED.
ErrorsCounted_ConnectingOnly(sc, st, f) ==
    IF st = "CONNECTING" /\ f.cmd # "CONNECTED" THEN 1 ELSE 0

\* stompErrors.add(1): k6-ws-new.js on an ERROR frame, k6-ws-new-min.js on
\* any frame that is not CONNECTED while in CONNECTING.
ErrorsCounted(sc, st, f) ==
    IF sc = "new"
    THEN IF f.cmd = "ERROR" THEN 1 ELSE 0
    ELSE IF st = "CONNECTING" /\ f.cmd # "CONNECTED" THEN 1 ELSE 0

\* A handler that counts only the messages of the session's own user.
ReceivedCounted_OwnOnly(sc, st, f) ==
    IF f.cmd = "MESSAGE" /\ f.sender = "self" THEN 1 ELSE 0

\* messagesReceived.add(1)
ReceivedCounted(sc, st, f) ==
    IF sc = "new"
    THEN IF f.cmd = "MESSAGE" THEN 1 ELSE 0
    ELSE IF st = "CHATTING" /\ HasPing(f) THEN 1 ELSE 0

\* The handler looks the frame's nonce up in the pending map.
LooksUp(sc, st, f) ==
    IF sc = "new"
    THEN f.cmd = "MESSAGE" /\ f.nonce # NoNonce /\ f.sender = "self"
    ELSE st = "CHATTING" /\ HasPing(f)

\* start !== undefined
Resolves(sc, st, f, p) == LooksUp(sc, st, f) /\ f.nonce \in DOMAIN p

\* A resolution that forgets to delete the entry.
AfterResolve_Keep(p, n) == p

\* The pending map after a resolution: delete pending[nonce].
AfterResolve(p, n) == Delete(p, n)

\* The sample msgRTT.add receives: Date.now() - start.
Rtt(t, start) == t - start

\* The chat ids of a response that are truthy: a chat without a chatId
\* (written 0) is dropped.
Truthy(r) == SelectSeq(r, LAMBDA x : x # 0)

\* A fetch whose response is not there yet when the handler returns.
ChatsAfterFetch_Deferred(sc, old, r) == old

\* chatIds after the chats r of a getChats response have been read:
\* k6-ws-new.js assigns the truthy ids, k6-ws-new-min.js pushes each truthy
\* id onto the list, ws-script.js ("old") pushes every chat's chatId.
ChatsAfterFetch(sc, old, r) ==
    IF sc = "new" THEN Truthy(r)
    ELSE IF sc = "min" THEN old \o Truthy(r)
    ELSE old \o r

\* Refresh intervals registered while handling CONNECTED.
RefreshRegistered(sc) == IF sc = "new" /\ CHAT_REFRESH_MS > 0 THEN 1 ELSE 0

\* Progress of the frame sequence CONNECTED, ERROR, MESSAGE echoing a
\* pending probe of this session (0 = no frame yet, -1 = another sequence).
ScenStep(k, f, p) ==
    CASE k = 0 /\ f.cmd = "CONNECTED" -> 1
      [] k = 1 /\ f.cmd = "ERROR" -> 2
      [] k = 2 /\ f.cmd = "MESSAGE" /\ f.sender = "self"
               /\ f.nonce \in DOMAIN p -> 3
      [] OTHER -> -1

\* A SUBSCRIBE to a destination that names no user.
Destination_NoUser(creds) == 0

\* The user id in the SUBSCRIBE frame's destination,
\* /user/${userId}/queue/messages, userId taken from the cached credentials.
Destination(creds) == creds.userId

\* A state variable shared by the sessions of all VUs.
SetState_Shared(st, v, s) == [w \in VUs |-> s]

\* state = s in the session of VU v: `state` is declared inside the
\* ws.connect callback, one variable per session.
SetState(st, v, s) == [st EXCEPT ![v] = s]

\* socket.on('message') for one delivered frame f.  On the CONNECTED path
\* the chat list r is fetched with a blocking call that takes d ms.
HandleMessage(v, f, r, d) ==
    /\ pc[v] = "session"
    /\ opened[v]
    /\ events < MaxEvents
    /\ events' = events + 1
    /\ LET sc == script
           st == state[v]
           p  == pending[v]
           hit == Resolves(sc, st, f, p)
           sample == IF hit THEN Rtt(now, p[f.nonce]) ELSE -1
       IN
       /\ state' = SetState(state, v, NextState(sc, st, f))
       /\ IF TakesConnected(sc, st, f)
          THEN /\ getChatReq < MaxChatReq
               /\ now + d <= MaxTime
               /\ now' = now + d
               /\ sent' = [sent EXCEPT
                              ![v] = Append(@, "SUBSCRIBE")]
               /\ subscribed' = [subscribed EXCEPT
                                    ![v] = Destination(userCreds[v])]
               /\ getChatReq' = getChatReq + 1
               /\ chatIds' = [chatIds EXCEPT
                                 ![v] = ChatsAfterFetch(sc, @, r)]
               /\ refreshTimers' = [refreshTimers EXCEPT
                                       ![v] = @ + RefreshRegistered(sc)]
               /\ UNCHANGED <<stompErrors, messagesReceived, msgRTT, pending,
                              resN, sessErrs>>
          ELSE /\ r = <<>> /\ d = 0
               /\ stompErrors' = stompErrors + ErrorsCounted(sc, st, f)
               /\ sessErrs' = [sessErrs EXCEPT
                                  ![v] = @ + ErrorsCounted(sc, st, f)]
               /\ messagesReceived' =
                      messagesReceived + ReceivedCounted(sc, st, f)
               /\ IF hit
                  THEN /\ msgRTT' = TrendAdd(msgRTT, sample)
                       /\ pending' = [pending EXCEPT
                                         ![v] = AfterResolve(p, f.nonce)]
                       /\ resN' = [resN EXCEPT ![v] = Bump(@, f.nonce)]
                  ELSE UNCHANGED <<msgRTT, pending, resN>>
               /\ UNCHANGED <<now, sent, subscribed, getChatReq, chatIds,
                              refreshTimers>>
       /\ scen' = [scen EXCEPT ![v] = ScenStep(@, f, p)]
       /\ last' = [op |-> "message", vu |-> v, frame |-> f, rtt |-> sample,
                   chatId |-> 0, chats |-> r, fetched |-> TRUE]
    /\ UNCHANGED <<codec, ramp, config, otherScripts, pc, iter, userCreds, globalPending, opened,
                   deadline, wsErrors, messagesSent, undeliveredMessages,
                   tornDown, regN, abandoned, nSessions>>

\* -------------------------------------------------- payloads on the wire

\* The frame as the message handler of k6-ws-new.js reads it: null, or the
\* command it compares with 'CONNECTED', 'ERROR' and 'MESSAGE'.  None of the
\* Commands is MESSAGE, so the body is not read.
FrameOf(fr) ==
    [cmd |-> IF fr.tag = "null" THEN "null"
             ELSE IF fr.command = <<>> THEN ""
             ELSE IF Len(fr.command) = 1 THEN fr.command[1]
             ELSE "other",
     nonce |-> NoNonce, sender |-> "none"]

\* stompFrame applied to (c, h, b), the one input of the behaviour.
Encode(c, h, b) ==
    /\ cin = NoInput
    /\ cin' = [command |-> c, headers |-> h, body |-> b]
    /\ wire' = stompFrame(c, h, b)
    /\ decoded' = NotDecoded
    /\ last' = Op("encode", 0)
    /\ UNCHANGED <<ramp, config, otherScripts, now, pc, iter, userCreds, globalPending, session,
                   metrics, tornDown, events, history>>

\* parseStompFrame applied to the encoded text.
Decode ==
    /\ wire # <<>>
    /\ decoded = NotDecoded
    /\ decoded' = parseStompFrame(wire)
    /\ last' = Op("decode", 0)
    /\ UNCHANGED <<cin, wire, ramp, config, otherScripts, now, pc, iter, userCreds,
                   globalPending, session, metrics, tornDown, events,
                   history>>

\* The peer puts a payload on the socket of VU 1: a frame with command c,
\* or text that is no encoded frame.
PutFrame(c) ==
    /\ pc[1] = "session"
    /\ opened[1]
    /\ wire' = stompFrame(c, <<>>, Absent)
    /\ last' = Op("put", 1)
    /\ UNCHANGED <<cin, decoded, ramp, config, otherScripts, now, pc, iter, userCreds,
                   globalPending, session, metrics, tornDown, events,
                   history>>

PutRaw(raw) ==
    /\ pc[1] = "session"
    /\ opened[1]
    /\ wire' = raw
    /\ last' = Op("put", 1)
    /\ UNCHANGED <<cin, decoded, ramp, config, otherScripts, now, pc, iter, userCreds,
                   globalPending, session, metrics, tornDown, events,
                   history>>

\* socket.on('message') for the payload on the wire: parse it, then act.
HandleWire(v, r, d) ==
    /\ wire # <<>>
    /\ HandleMessage(v, FrameOf(parseStompFrame(wire)), r, d)

\* ------------------------------------------------------------ the timers

\* A send loop without its guards.
SendGuard_None(v) == TRUE

\* The send loop's two guards.
SendGuard(v) == state[v] = "CHATTING" /\ chatIds[v] # <<>>

\* A pick that indexes past the end of the list: undefined.
PickChat_Undefined(ids) == {0}

\* chatIds[Math.floor(Math.random() * chatIds.length)]: any element; on an
\* empty list the expression is chatIds[0], undefined (written 0).
PickChat(ids) == IF ids = <<>> THEN {0} ELSE {ids[i] : i \in 1..Len(ids)}

\* A nonce that does not depend on the time of the send.
Nonce_Fixed(ts) == 0

\* The nonce minted for a send at time ts: `${ts}`.
Nonce(ts) == ts

\* One firing of the send interval.
SendTick(v) ==
    /\ pc[v] = "session"
    /\ opened[v]
    /\ IF SendGuard(v)
       THEN /\ messagesSent < MaxSent
            /\ \E cid \in PickChat(chatIds[v]) :
                 LET ts == now
                     nonce == Nonce(ts)
                 IN
                 /\ pending' = [pending EXCEPT
                                   ![v] = Register(@, nonce, ts)]
                 /\ sent' = [sent EXCEPT ![v] = Append(@, "SEND")]
                 /\ regN' = [regN EXCEPT ![v] = Bump(@, nonce)]
                 /\ last' = [op |-> "tick", vu |-> v, rtt |-> -1,
                             frame |-> [cmd |-> "SEND", nonce |-> nonce,
                                        sender |-> "self"],
                             chatId |-> cid, chats |-> <<>>,
                             fetched |-> TRUE]
            /\ messagesSent' = messagesSent + 1
       ELSE /\ UNCHANGED <<pending, sent, regN, messagesSent>>
            /\ last' = Op("tick", v)
    /\ UNCHANGED <<codec, ramp, config, otherScripts, now, pc, iter, userCreds, globalPending, state,
                   chatIds, opened, deadline, refreshTimers, subscribed,
                   wsErrors,
                   stompErrors, msgRTT, messagesReceived, getChatReq,
                   undeliveredMessages, tornDown, events, resN, sessErrs,
                   scen, abandoned, nSessions>>

\* getChats got its answer and found the chats array in it.
FetchOk(res) == res.status = 200 /\ res.array

\* What getChats returns for the response res: [] when the status is not
\* 200 or the body has no chats array, else the truthy chatIds.
GetChats(res) == IF FetchOk(res) THEN Truthy(res.chats) ELSE <<>>

\* One firing of a refresh interval: refreshChats(), a blocking getChats
\* answered with res after d ms.
RefreshTick(v, res, d) ==
    /\ pc[v] = "session"
    /\ opened[v]
    /\ refreshTimers[v] > 0
    /\ getChatReq < MaxChatReq
    /\ now + d <= MaxTime
    /\ now' = now + d
    /\ getChatReq' = getChatReq + 1
    /\ chatIds' = [chatIds EXCEPT ![v] = GetChats(res)]
    /\ last' = [Op("refresh", v) EXCEPT !.fetched = FetchOk(res)]
    /\ UNCHANGED <<codec, ramp, config, otherScripts, pc, iter, userCreds, globalPending, pending,
                   state, opened, deadline, refreshTimers, sent, subscribed,
                   wsErrors,
                   stompErrors, msgRTT, messagesReceived, messagesSent,
                   undeliveredMessages, tornDown, events, history>>

\* socket.on('error')
WsError(v) ==
    /\ pc[v] = "session"
    /\ events < MaxEvents
    /\ events' = events + 1
    /\ wsErrors' = wsErrors + 1
    /\ last' = Op("wsError", v)
    /\ UNCHANGED <<codec, ramp, config, otherScripts, now, pc, iter, userCreds, globalPending, session,
                   stompErrors, msgRTT, messagesReceived, messagesSent,
                   getChatReq, undeliveredMessages, tornDown, history>>

\* The socket closes and ws.connect returns; the entries still in the
\* pending map are the probes this session abandons.
EndSession(v, why) ==
    /\ pc' = [pc EXCEPT ![v] = "sleep"]
    /\ abandoned' = abandoned + Size(pending[v])
    /\ last' = Op(why, v)
    /\ UNCHANGED <<codec, ramp, config, otherScripts, now, iter, userCreds, globalPending, session,
                   metrics, tornDown, events, regN, resN, sessErrs, scen,
                   nSessions>>

\* The timeout armed by the open handler: socket.close().
SessionTimeout(v) ==
    /\ pc[v] = "session"
    /\ deadline[v] >= 0
    /\ now >= deadline[v]
    /\ EndSession(v, "timeout")

\* The peer, or the end of the run, closes the socket.
PeerClose(v) ==
    /\ pc[v] = "session"
    /\ EndSession(v, "close")

\* check(res, ...); sleep(1); the default function returns.  The closure
\* variables of the finished session are gone; its pending map stays
\* reachable through globalPending.
Sleep(v) ==
    /\ pc[v] = "sleep"
    /\ pc' = [pc EXCEPT ![v] = "start"]
    /\ state' = [state EXCEPT ![v] = "CONNECTING"]
    /\ chatIds' = [chatIds EXCEPT ![v] = <<>>]
    /\ opened' = [opened EXCEPT ![v] = FALSE]
    /\ deadline' = [deadline EXCEPT ![v] = -1]
    /\ refreshTimers' = [refreshTimers EXCEPT ![v] = 0]
    /\ sent' = [sent EXCEPT ![v] = <<>>]
    /\ subscribed' = [subscribed EXCEPT ![v] = 0]
    /\ sessErrs' = [sessErrs EXCEPT ![v] = 0]
    /\ scen' = [scen EXCEPT ![v] = 0]
    /\ last' = Op("sleep", v)
    /\ UNCHANGED <<codec, ramp, config, otherScripts, now, iter, userCreds, globalPending, pending,
                   metrics, tornDown, events, regN, resN, abandoned,
                   nSessions>>

\* A millisecond passes with every event loop idle: a session whose
\* timeout is due runs it before more time passes.
Tick ==
    /\ now < MaxTime
    /\ \A v \in VUs :
         (pc[v] = "session" /\ deadline[v] >= 0) => now < deadline[v]
    /\ now' = now + 1
    /\ last' = Op("clock", 0)
    /\ UNCHANGED <<codec, ramp, config, otherScripts, pc, iter, userCreds, globalPending, session,
                   metrics, tornDown, events, history>>

\* ------------------------------------------------------------- teardown

RECURSIVE SumPending(_, _)
SumPending(keys, p) ==
    IF keys = {} THEN 0
    ELSE LET vu == CHOOSE k \in keys : TRUE
         IN Size(p[vu]) + SumPending(keys \ {vu}, p)

\* A run that calls teardown() whatever the VUs are doing.
AllDone_Early == TRUE

\* k6 calls teardown() when the stages and the gracefulStop period are
\* over: no VU is running the default function any more.
AllDone == \A v \in VUs : pc[v] = "start"

\* teardown(): total of Object.keys(globalPending[vu]).length
Teardown ==
    /\ ~tornDown
    /\ AllDone
    /\ tornDown' = TRUE
    /\ undeliveredMessages' =
           undeliveredMessages + SumPending(globalPending, pending)
    /\ last' = Op("teardown", 0)
    /\ UNCHANGED <<codec, ramp, config, otherScripts, now, pc, iter, userCreds, globalPending, session,
                   wsErrors, stompErrors, msgRTT, messagesReceived,
                   messagesSent, getChatReq, events, history>>

\* ----------------------------------------------------- the specification

\* How long a blocking getChats call can take.
Durations == 0..MaxTime

\* One session: VU 1 runs one iteration of the default function, the server
\* delivers any frames, timers fire, and teardown runs at the end.
NextSession ==
    \/ Sum(iter, VUs) = 0 /\ BeginIteration(1)
    \/ GetTicket(1)
    \/ WsConnect(1)
    \/ Open(1)
    \/ SendTick(1)
    \/ \E res \in GetChatsResponses, d \in Durations : RefreshTick(1, res, d)
    \/ \E f \in Frames, r \in ChatResponses, d \in Durations :
           HandleMessage(1, f, r, d)
    \/ WsError(1)
    \/ SessionTimeout(1)
    \/ PeerClose(1)
    \/ Sleep(1)
    \/ Tick
    \/ Teardown

SpecSession == Init /\ [][NextSession]_vars

\* A run: every VU iterates, sessions of different VUs interleave, and
\* teardown runs when no iteration is in progress.  The run's totals are
\* capped by RunEvents, RunSent and RunChatReq.
Next ==
    \/ \E v \in VUs : BeginIteration(v)
    \/ \E v \in VUs : GetTicket(v)
    \/ \E v \in VUs : WsConnect(v)
    \/ \E v \in VUs : Open(v)
    \/ \E v \in VUs, f \in Frames, r \in ChatResponses, d \in Durations :
           events < RunEvents /\ getChatReq < RunChatReq
           /\ HandleMessage(v, f, r, d)
    \/ \E v \in VUs : messagesSent < RunSent /\ SendTick(v)
    \/ \E v \in VUs, res \in GetChatsResponses, d \in Durations :
           getChatReq < RunChatReq /\ RefreshTick(v, res, d)
    \/ \E v \in VUs : events < RunEvents /\ WsError(v)
    \/ \E v \in VUs : SessionTimeout(v)
    \/ \E v \in VUs : PeerClose(v)
    \/ \E v \in VUs : Sleep(v)
    \/ Tick
    \/ Teardown

Spec == Init /\ [][Next]_vars

\* The codec alone: encode any input, decode the result.
NextCodec ==
    \/ \E c \in Commands, h \in HeaderMaps, b \in Bodies : Encode(c, h, b)
    \/ Decode

SpecCodec == Init /\ [][NextCodec]_vars

\* One session of k6-ws-new.js whose peer sends encoded frames and raw
\* payloads, which the message handler parses.
InitWire == Init /\ script = "new"

NextWire ==
    \/ Sum(iter, VUs) = 0 /\ BeginIteration(1)
    \/ GetTicket(1)
    \/ WsConnect(1)
    \/ Open(1)
    \/ \E c \in Commands : PutFrame(c)
    \/ \E raw \in RawPayloads : PutRaw(raw)
    \/ \E r \in ChatResponses, d \in Durations : HandleWire(1, r, d)
    \/ SendTick(1)
    \/ SessionTimeout(1)
    \/ PeerClose(1)
    \/ Sleep(1)
    \/ Tick

SpecWire == InitWire /\ [][NextWire]_vars

\* options.stages: stage 1 ramps the target up to TOTAL_USERS, stage 2
\* holds it, stage 3 ramps it down to 0; 4 = the stages are over.
RampStep(rp) ==
    CASE rp.stage = 1 /\ rp.target < TOTAL_USERS ->
             [rp EXCEPT !.target = @ + 1]
      [] rp.stage = 1 /\ rp.target = TOTAL_USERS -> [rp EXCEPT !.stage = 2]
      [] rp.stage = 2 -> [rp EXCEPT !.stage = 3]
      [] rp.stage = 3 /\ rp.target > 0 -> [rp EXCEPT !.target = @ - 1]
      [] OTHER -> [rp EXCEPT !.stage = 4]

\* The executor moves along the stages.
Ramp ==
    /\ ramp.stage < 4
    /\ ramp' = RampStep(ramp)
    /\ last' = Op("ramp", 0)
    /\ UNCHANGED <<codec, config, otherScripts, now, pc, iter, userCreds, globalPending,
                   session, metrics, tornDown, events, history>>

\* The CONNECTED frame.
ConnectedFrame == [cmd |-> "CONNECTED", nonce |-> NoNonce, sender |-> "none"]

\* A run under the stages: the executor keeps the VUs 1..target iterating,
\* a VU above the target starts no iteration and its session is closed by
\* the executor; teardown() runs after the last stage.  The servers accept
\* the STOMP session (CONNECTED), list one chat and answer no probe.
NextRun ==
    \/ Ramp
    \/ \E v \in VUs : v <= ramp.target /\ BeginIteration(v)
    \/ \E v \in VUs : GetTicket(v)
    \/ \E v \in VUs : WsConnect(v)
    \/ \E v \in VUs : Open(v)
    \/ \E v \in VUs :
           state[v] = "CONNECTING"
           /\ HandleMessage(v, ConnectedFrame, <<1>>, 0)
    \/ \E v \in VUs : messagesSent < RunSent /\ SendTick(v)
    \/ \E v \in VUs : SessionTimeout(v)
    \/ \E v \in VUs : PeerClose(v)
    \/ \E v \in VUs : Sleep(v)
    \/ Tick
    \/ ramp.stage = 4 /\ Teardown

SpecRun == Init /\ [][NextRun]_vars

\* The frame ERROR.
ErrorFrame == [cmd |-> "ERROR", nonce |-> NoNonce, sender |-> "none"]

\* Two VUs whose sessions interleave and fail: sign-in and ticket requests
\* are rejected, handshakes fail, sockets report errors, the server answers
\* CONNECT with CONNECTED or ERROR.  The clock stands still.
NextLocal ==
    \/ \E v \in VUs : BeginIteration(v)
    \/ \E v \in VUs : GetTicket(v)
    \/ \E v \in VUs : WsConnect(v)
    \/ \E v \in VUs : Open(v)
    \/ \E v \in VUs, f \in {ConnectedFrame, ErrorFrame} :
           events < RunEvents
           /\ HandleMessage(v, f, IF f = ConnectedFrame THEN <<1>> ELSE <<>>, 0)
    \/ \E v \in VUs : messagesSent < RunSent /\ SendTick(v)
    \/ \E v \in VUs : events < RunEvents /\ WsError(v)
    \/ \E v \in VUs : PeerClose(v)
    \/ \E v \in VUs : Sleep(v)

SpecLocal == Init /\ [][NextLocal]_vars

\* One session whose getChats calls return at once: VU 1 runs one
\* iteration, the server delivers any frames, the send timer fires.
NextProbe ==
    \/ Sum(iter, VUs) = 0 /\ BeginIteration(1)
    \/ GetTicket(1)
    \/ WsConnect(1)
    \/ Open(1)
    \/ \E f \in Frames, r \in ChatResponses : HandleMessage(1, f, r, 0)
    \/ SendTick(1)
    \/ SessionTimeout(1)
    \/ PeerClose(1)
    \/ Sleep(1)
    \/ Tick

SpecProbe == Init /\ [][NextProbe]_vars

\* One session of k6-ws-new.js under any setting of CHAT_REFRESH_MS: the
\* server answers CONNECT with one CONNECTED, the timers fire.
InitRefresh ==
    /\ Constructed /\ script = "new" /\ regScript = "init"
    /\ chatScript = "init"
    /\ refreshEnv \in EnvValues

NextRefresh ==
    \/ Sum(iter, VUs) = 0 /\ BeginIteration(1)
    \/ GetTicket(1)
    \/ WsConnect(1)
    \/ Open(1)
    \/ \E r \in ChatResponses, d \in Durations :
           state[1] = "CONNECTING" /\ HandleMessage(1, ConnectedFrame, r, d)
    \/ \E res \in GetChatsResponses, d \in Durations : RefreshTick(1, res, d)
    \/ SendTick(1)
    \/ SessionTimeout(1)
    \/ PeerClose(1)
    \/ Sleep(1)
    \/ Tick

SpecRefresh == InitRefresh /\ [][NextRefresh]_vars

\* One session of k6-ws-new-min.js against a server whose chat list may
\* hold chats without a chatId.
InitMin == Init /\ script = "min"

NextMin ==
    \/ Sum(iter, VUs) = 0 /\ BeginIteration(1)
    \/ GetTicket(1)
    \/ WsConnect(1)
    \/ Open(1)
    \/ \E f \in Frames, r \in RawChatLists : HandleMessage(1, f, r, 0)
    \/ SendTick(1)
    \/ WsError(1)
    \/ PeerClose(1)
    \/ Sleep(1)
    \/ Tick

SpecMin == InitMin /\ [][NextMin]_vars

\* ------------------------------------------------- the registration stage

\* check(reg, ...) passes: k6-init-new.js accepts 201 and 400 (the user
\* exists already), part_000 accepts 201 only.
RegisterOk(rs, status) ==
    IF rs = "init" THEN status \in {201, 400} ELSE status = 201

\* The guard at the top of registerUsers: k6-init-new.js returns at once
\* in every iteration after the first, part_000 has no guard.
SkipsIteration(rs, it) == rs = "init" /\ it > 0

\* One iteration of registerUsers by VU v: registerUser answers with
\* `status`, and the signin that follows succeeds or not.
RegisterUsers(v, status, loginOk) ==
    /\ regPc[v] = "idle"
    /\ regIter[v] < MaxRegIter
    /\ regIter' = Bump(regIter, v)
    /\ regPc' = [regPc EXCEPT ![v] = "sleep"]
    /\ IF SkipsIteration(regScript, regIter[v])
       THEN /\ status = 201 /\ loginOk
            /\ UNCHANGED <<registerReqs, signinReqs, registrationErrors>>
            /\ last' = Op("registerSkipped", v)
       ELSE /\ registerReqs' = Bump(registerReqs, v)
            /\ IF RegisterOk(regScript, status)
               THEN /\ signinReqs' = Bump(signinReqs, v)
                    /\ registrationErrors' =
                           registrationErrors + (IF loginOk THEN 0 ELSE 1)
               ELSE /\ loginOk
                    /\ UNCHANGED signinReqs
                    /\ registrationErrors' = registrationErrors + 1
            /\ last' = Op("register", v)
    /\ UNCHANGED <<codec, config, listeners, e2e, regScript, chatCreation, elapsed, ramp,
                   now, pc, iter, userCreds, globalPending, session, metrics,
                   tornDown, events, history>>

\* The sleep that ends every path of registerUsers is over: the function
\* returns.
RegisterDone(v) ==
    /\ regPc[v] = "sleep"
    /\ regPc' = [regPc EXCEPT ![v] = "idle"]
    /\ last' = Op("registerDone", v)
    /\ UNCHANGED <<codec, config, listeners, e2e, registration, chatCreation, elapsed, ramp,
                   now, pc, iter, userCreds, globalPending, session, metrics,
                   tornDown, events, history>>

\* The registration scenario: the executor ramps the VUs up, holds them
\* and ramps them down; a VU within the target iterates registerUsers.
InitRegister ==
    /\ Constructed /\ script = "new" /\ refreshEnv = "unset"
    /\ regScript \in RegScripts /\ chatScript = regScript

NextRegister ==
    \/ Ramp
    \/ \E v \in VUs, status \in RegStatuses, loginOk \in BOOLEAN :
           v <= ramp.target /\ RegisterUsers(v, status, loginOk)
    \/ \E v \in VUs : RegisterDone(v)

SpecRegister == InitRegister /\ [][NextRegister]_vars

\* ------------------------------------------------------ chat creation

\* The chat-creating functions: "init" = createChats of src/k6-init-new.js,
\* "part" = createChats of the first script of src/unnamed/part_000,
\* "second" = the default function of the second script of part_000.
ChatScripts == {"init", "part", "second"}

ChatStatuses == {201, 500}

Min(a, b) == IF a < b THEN a ELSE b
Max(a, b) == IF a > b THEN a ELSE b

\* const chatsToCreate of createChats.
ChatsToCreate(cs) ==
    IF cs = "init" THEN Min(MAX_CHAT_PEERS, Max(0, TOTAL_USERS - 1))
    ELSE Min(MAX_CHAT_PEERS, TOTAL_USERS - 1)

\* The condition of the loop around createChat: createChats counts i up
\* to chatsToCreate, the second script runs i from vu + 1 to TOTAL_USERS
\* while fewer than MAX_CHAT_PEERS chats were created.
LoopContinues(cs, i, n) ==
    IF cs = "second" THEN i <= TOTAL_USERS /\ n < MAX_CHAT_PEERS
    ELSE i < ChatsToCreate(cs)

\* The values the peer's number can take.  createChats draws
\* floor(random * TOTAL_USERS) + 1 again and again until it differs from
\* the VU's own number; the second script draws
\* floor(random * (TOTAL_USERS - 1)) + 1 once.
PeerPicks(cs, v) ==
    IF cs = "second" THEN 1..(TOTAL_USERS - 1)
    ELSE (1..TOTAL_USERS) \ {v}

\* A VU begins an iteration of the chat-creating function: it signs in
\* (the second script registers and signs in), and returns at once when
\* that fails.
CreateChatsBegin(v, loginOk) ==
    /\ chatPc[v] = "idle"
    /\ chatIter[v] < MaxChatIter
    /\ chatIter' = Bump(chatIter, v)
    /\ IF loginOk
       THEN /\ chatPc' = [chatPc EXCEPT ![v] = "loop"]
            /\ chatI' = [chatI EXCEPT
                            ![v] = IF chatScript = "second" THEN v + 1 ELSE 0]
            /\ created' = [created EXCEPT ![v] = 0]
            /\ UNCHANGED chatCreationErrors
       ELSE /\ chatCreationErrors' =
                   chatCreationErrors + (IF chatScript = "second" THEN 0 ELSE 1)
            /\ UNCHANGED <<chatPc, chatI, created>>
    /\ last' = Op("createChatsBegin", v)
    /\ UNCHANGED <<codec, config, listeners, e2e, registration, regPc, elapsed, chatScript,
                   peer, ramp, now, pc, iter, userCreds, globalPending,
                   session, metrics, tornDown, events, history>>

\* One pass of the loop: a peer is drawn, createChat is posted and
\* answers with `status`, and the VU sleeps.
CreateChat(v, other, status) ==
    /\ chatPc[v] = "loop"
    /\ LoopContinues(chatScript, chatI[v], created[v])
    /\ other \in PeerPicks(chatScript, v)
    /\ peer' = [peer EXCEPT ![v] = other]
    /\ chatI' = Bump(chatI, v)
    /\ IF status = 201
       THEN /\ created' = Bump(created, v)
            /\ UNCHANGED chatCreationErrors
       ELSE /\ chatCreationErrors' =
                   chatCreationErrors + (IF chatScript = "second" THEN 0 ELSE 1)
            /\ UNCHANGED created
    /\ last' = Op("createChat", v)
    /\ UNCHANGED <<codec, config, listeners, e2e, registration, regPc, elapsed, chatScript,
                   chatPc, chatIter, ramp, now, pc, iter, userCreds,
                   globalPending, session, metrics, tornDown, events, history>>

\* The loop is over: the VU sleeps once more and the function returns.
CreateChatsEnd(v) ==
    /\ chatPc[v] = "loop"
    /\ ~LoopContinues(chatScript, chatI[v], created[v])
    /\ chatPc' = [chatPc EXCEPT ![v] = "idle"]
    /\ last' = Op("createChatsEnd", v)
    /\ UNCHANGED <<codec, config, listeners, e2e, registration, regPc, elapsed, chatScript,
                   chatIter, chatI, created, peer, chatCreationErrors, ramp,
                   now, pc, iter, userCreds, globalPending, session, metrics,
                   tornDown, events, history>>

\* A VU within the executor's target runs the chat-creating function.
ChatStep(v) ==
    \/ \E loginOk \in BOOLEAN : v <= ramp.target /\ CreateChatsBegin(v, loginOk)
    \/ \E other \in VUs, status \in ChatStatuses : CreateChat(v, other, status)
    \/ CreateChatsEnd(v)

InitChats ==
    /\ Constructed /\ script = "new" /\ refreshEnv = "unset"
    /\ regScript = "part" /\ chatScript \in ChatScripts

NextChats ==
    \/ Ramp
    \/ \E v \in VUs : ChatStep(v)

SpecChats == InitChats /\ [][NextChats]_vars

\* ------------------------------------------- the two-scenario init run

\* Times are in half minutes.  The stages of user_registration (3m, 3m,
\* 1m); src/k6-init-new.js has the scenario commented out.
RegStages == <<6, 6, 2>>
RegEnabled(rs) == rs = "part"
RegEnd == RegStages[1] + RegStages[2] + RegStages[3]

\* startTime of chat_creation: '7m' in part_000, '10m' in k6-init-new.js.
ChatStartTime(rs) == IF rs = "part" THEN 14 ELSE 20

\* The executor of user_registration starts iterations while the stages
\* run; an iteration that is running when they end is given GracefulStop
\* to finish and is interrupted after that.
RegStarts(rs, e) == RegEnabled(rs) /\ e < RegEnd
RegInterrupted(e) == e >= RegEnd + GracefulStop

\* The executor of chat_creation starts iterations from startTime on.
ChatStarts(rs, e) == e >= ChatStartTime(rs)

\* Half a minute passes.
Elapse ==
    /\ elapsed < MaxElapsed
    /\ elapsed' = elapsed + 1
    /\ regPc' = IF RegInterrupted(elapsed')
                THEN [v \in VUs |-> "idle"] ELSE regPc
    /\ last' = Op("elapse", 0)
    /\ UNCHANGED <<codec, config, listeners, e2e, registration, chatCreation, ramp, now, pc,
                   iter, userCreds, globalPending, session, metrics,
                   tornDown, events, history>>

InitStages ==
    /\ Constructed /\ script = "new" /\ refreshEnv = "unset"
    /\ regScript \in RegScripts /\ chatScript = regScript

NextStages ==
    \/ Elapse
    \/ \E v \in VUs, status \in RegStatuses, loginOk \in BOOLEAN :
           RegStarts(regScript, elapsed) /\ RegisterUsers(v, status, loginOk)
    \/ \E v \in VUs : RegisterDone(v)
    \/ \E v \in VUs, loginOk \in BOOLEAN :
           ChatStarts(regScript, elapsed) /\ CreateChatsBegin(v, loginOk)
    \/ \E v \in VUs, other \in VUs, status \in ChatStatuses :
           CreateChat(v, other, status)
    \/ \E v \in VUs : CreateChatsEnd(v)

SpecStages == InitStages /\ [][NextStages]_vars

\* ------------------------------------- the first script of ws-script.js

\* Frames as the first script reads them: it looks at how the text
\* starts, at whether there is a body after the blank line, and at whether
\* the body includes `ping:<nonce>` or `SEND_MSG`.
PingFrames ==
    {[cmd |-> c, nonce |-> NoNonce, sendMsg |-> FALSE] :
        c \in {"CONNECTED", "ERROR"}}
    \cup {[cmd |-> "MESSAGE", nonce |-> n, sendMsg |-> b] :
             n \in Time \cup {NoNonce}, b \in BOOLEAN}

\* m.toString().split('\n\n')[1]?.replace(/\0$/, '') is a non-empty text.
HasBody(f) == f.cmd = "MESSAGE"

\* The chat ids the CONNECTED branch pushes: every chat.chatId of a 200
\* response with a chats array, unfiltered.
PushedChats(res) == IF FetchOk(res) THEN res.chats ELSE <<>>

\* What the listener a send tick registered for nonce n adds to
\* messages_received_total for the frame f: one for its own ping, one for
\* any other body that includes SEND_MSG.
ListenerCounts(f, n) ==
    IF ~HasBody(f) THEN 0
    ELSE IF f.nonce = n THEN 1
    ELSE IF f.sendMsg THEN 1 ELSE 0

\* The listener for nonce n records an RTT sample for the frame f.
ListenerSamples(f, n) == HasBody(f) /\ f.nonce = n

\* messages_received_total after the listeners in L have handled f.
RECURSIVE CountedBy(_, _)
CountedBy(L, f) ==
    IF L = <<>> THEN 0
    ELSE ListenerCounts(f, Head(L).nonce) + CountedBy(Tail(L), f)

\* msgRTT after the listeners in L have handled f at time t.
RECURSIVE SampledBy(_, _, _, _)
SampledBy(L, f, t, trend) ==
    IF L = <<>> THEN trend
    ELSE SampledBy(Tail(L), f, t,
                   IF ListenerSamples(f, Head(L).nonce)
                   THEN TrendAdd(trend, Rtt(t, Head(L).start))
                   ELSE trend)

\* The listeners in L that record a sample for f.
Sampling(L, f) ==
    Cardinality({i \in 1..Len(L) : ListenerSamples(f, L[i].nonce)})

\* The default function up to ws.connect: sign in unless the credentials
\* are cached, return when that fails, else run the session's callback.
FirstConnect(v, loginOk) ==
    /\ pc[v] = "start"
    /\ Sum(iter, VUs) < MaxIter
    /\ iter' = Bump(iter, v)
    /\ IF userCreds[v] # NoCreds \/ loginOk
       THEN /\ userCreds' = [userCreds EXCEPT ![v] = [userId |-> v, jwt |-> v]]
            /\ pc' = [pc EXCEPT ![v] = "session"]
            /\ state' = [state EXCEPT ![v] = "CONNECTING"]
            /\ chatIds' = [chatIds EXCEPT ![v] = <<>>]
            /\ listeners' = [listeners EXCEPT ![v] = <<>>]
            /\ opened' = [opened EXCEPT ![v] = FALSE]
            /\ sent' = [sent EXCEPT ![v] = <<>>]
            /\ regN' = [regN EXCEPT ![v] = ZeroN]
            /\ resN' = [resN EXCEPT ![v] = ZeroN]
       ELSE UNCHANGED <<userCreds, pc, state, chatIds, listeners, opened,
                        sent, regN, resN>>
    /\ last' = Op("firstConnect", v)
    /\ UNCHANGED <<codec, ramp, config, provisioning, e2e, now, globalPending,
                   pending, deadline, refreshTimers, subscribed, metrics,
                   tornDown, events, sessErrs, scen, abandoned, nSessions>>

\* socket.on('open')
FirstOpen(v) ==
    /\ pc[v] = "session"
    /\ ~opened[v]
    /\ opened' = [opened EXCEPT ![v] = TRUE]
    /\ sent' = [sent EXCEPT ![v] = Append(@, "CONNECT")]
    /\ last' = Op("firstOpen", v)
    /\ UNCHANGED <<codec, ramp, config, provisioning, listeners, e2e, now, pc,
                   iter, userCreds, globalPending, pending, state, chatIds,
                   deadline, refreshTimers, subscribed, metrics, tornDown,
                   events, history>>

\* One frame f is delivered: the handler registered in the callback runs,
\* then every listener the send ticks registered.  getChats in the
\* CONNECTED branch is answered with res.
FirstMessage(v, f, res) ==
    /\ pc[v] = "session"
    /\ opened[v]
    /\ events < MaxEvents
    /\ events' = events + 1
    /\ IF state[v] = "CONNECTING" /\ f.cmd = "CONNECTED"
       THEN /\ sent' = [sent EXCEPT ![v] = Append(@, "SUBSCRIBE")]
            /\ state' = SetState(state, v, "CHATTING")
            /\ chatIds' = [chatIds EXCEPT ![v] = @ \o PushedChats(res)]
            /\ UNCHANGED stompErrors
       ELSE /\ res = [status |-> 500, array |-> FALSE, chats |-> <<>>]
            /\ stompErrors' =
                   stompErrors + (IF state[v] = "CONNECTING" THEN 1 ELSE 0)
            /\ UNCHANGED <<sent, state, chatIds>>
    /\ messagesReceived' = messagesReceived + CountedBy(listeners[v], f)
    /\ msgRTT' = SampledBy(listeners[v], f, now, msgRTT)
    /\ resN' = IF Sampling(listeners[v], f) > 0
               THEN [resN EXCEPT
                        ![v][f.nonce] = @ + Sampling(listeners[v], f)]
               ELSE resN
    /\ last' = Op("firstMessage", v)
    /\ UNCHANGED <<codec, ramp, config, provisioning, listeners, e2e, now, pc,
                   iter, userCreds, globalPending, pending, opened, deadline,
                   refreshTimers, subscribed, wsErrors, messagesSent,
                   getChatReq, undeliveredMessages, tornDown, regN, sessErrs,
                   scen, abandoned, nSessions>>

\* One firing of the ping interval (every 6000 ms, so no two pings of a
\* session are sent in the same millisecond): the ping is sent and a new
\* message listener is registered for its nonce.
FirstTick(v) ==
    /\ pc[v] = "session"
    /\ opened[v]
    /\ IF state[v] = "CHATTING" /\ chatIds[v] # <<>>
       THEN /\ Len(listeners[v]) < MaxListeners
            /\ \A i \in 1..Len(listeners[v]) : listeners[v][i].start < now
            /\ sent' = [sent EXCEPT ![v] = Append(@, "SEND")]
            /\ messagesSent' = messagesSent + 1
            /\ regN' = [regN EXCEPT ![v] = Bump(@, Nonce(now))]
            /\ listeners' =
                   [listeners EXCEPT
                      ![v] = Append(@, [nonce |-> Nonce(now), start |-> now])]
       ELSE UNCHANGED <<sent, messagesSent, regN, listeners>>
    /\ last' = Op("firstTick", v)
    /\ UNCHANGED <<codec, ramp, config, provisioning, e2e, now, pc, iter,
                   userCreds, globalPending, pending, state, chatIds, opened,
                   deadline, refreshTimers, subscribed, wsErrors, stompErrors,
                   msgRTT, messagesReceived, getChatReq, undeliveredMessages,
                   tornDown, events, resN, sessErrs, scen, abandoned,
                   nSessions>>

\* The socket closes, ws.connect returns and the iteration sleeps.
FirstClose(v) ==
    /\ pc[v] = "session"
    /\ pc' = [pc EXCEPT ![v] = "start"]
    /\ last' = Op("firstClose", v)
    /\ UNCHANGED <<codec, ramp, config, otherScripts, now, iter, userCreds,
                   globalPending, session, metrics, tornDown, events,
                   history>>

InitFirst ==
    /\ Constructed /\ script = "new" /\ refreshEnv = "unset"
    /\ regScript = "init" /\ chatScript = "init"

NextFirst ==
    \/ \E v \in VUs, loginOk \in BOOLEAN : FirstConnect(v, loginOk)
    \/ \E v \in VUs : FirstOpen(v)
    \/ \E v \in VUs, f \in PingFrames, res \in GetChatsResponses :
           FirstMessage(v, f, res)
    \/ \E v \in VUs : FirstTick(v)
    \/ \E v \in VUs : WsError(v)
    \/ \E v \in VUs : FirstClose(v)
    \/ Tick

SpecFirst == InitFirst /\ [][NextFirst]_vars

\* ----------------------------------------------------------- whisp-e2e.js

Users == {"sender", "receiver"}

\* The awaited steps of main, in order, for RUN_NEGATIVE = false.
Steps ==
    <<"registerSender", "registerReceiver", "signInSender",
      "signInReceiver", "changeUsername", "getUserSender",
      "getUserReceiver", "refreshJwt", "createChat", "listChatsSender",
      "listChatsReceiver", "getUsersInChat", "getTicketSender",
      "getTicketReceiver", "connectReceiver", "connectSender", "sleep",
      "send", "await", "getMessages", "changeChatName", "removeUser",
      "addUser", "getUsersInChatAgain", "logoutSender", "logoutAllReceiver",
      "deleteChat", "disconnectSender", "disconnectReceiver",
      "deleteSender", "deleteReceiver">>

\* The user a step registers, connects, disconnects or deletes.
Registers(st) ==
    IF st = "registerSender" THEN {"sender"}
    ELSE IF st = "registerReceiver" THEN {"receiver"} ELSE {}

Deletes(st) ==
    IF st = "deleteSender" THEN {"sender"}
    ELSE IF st = "deleteReceiver" THEN {"receiver"} ELSE {}

Connects(st) ==
    IF st = "connectSender" THEN {"sender"}
    ELSE IF st = "connectReceiver" THEN {"receiver"} ELSE {}

Disconnects(st) ==
    IF st = "disconnectSender" THEN {"sender"}
    ELSE IF st = "disconnectReceiver" THEN {"receiver"} ELSE {}

\* The messages the subscription can push: one the predicate of main
\* accepts, one it rejects, and one it throws on (a body that parses to
\* null has no property `type`).
Messages == {"match", "other", "bad"}

\* An interval that stays set after clearInterval.
ClearInterval_Forgotten(t) == t

\* clearInterval(t)
ClearInterval(t) == FALSE

\* The first message of the inbox the predicate does not simply reject
\* (0 = there is none): the loop of the callback stops there.
FirstHit(box) ==
    IF \E i \in 1..Len(box) : box[i] # "other"
    THEN CHOOSE i \in 1..Len(box) :
           box[i] # "other" /\ \A j \in 1..(i - 1) : box[j] = "other"
    ELSE 0

\* What one run of the interval's callback does to the promise.
PollResult(box, w) ==
    IF FirstHit(box) # 0
    THEN IF box[FirstHit(box)] = "match" THEN "resolved" ELSE "error"
    ELSE IF w > WS_MESSAGE_TIMEOUT_MS THEN "timeout" ELSE "pending"

\* The state of a promise after a call of resolve or reject: the first
\* call settles it, later calls have no effect.
Settle(o, result) == IF o = "pending" THEN result ELSE o

\* main().catch: the error is logged and the process exits with code 1.
\* Falling off the end of main ends the process with code 0.
Exit(code) ==
    /\ e2eStep' = 0
    /\ exitCode' = code

\* One awaited step of main.  ok: the step's request gets an expected
\* status and its assertions pass (for a connect: onConnect runs within
\* WS_CONNECT_TIMEOUT_MS); otherwise the step throws and main rejects.
MainStep(ok) ==
    /\ e2eStep \in 1..Len(Steps)
    /\ LET st == Steps[e2eStep] IN
       /\ st = "sleep" => ok
       /\ st = "await" => outcome \notin {"none", "pending"}
       /\ IF ok /\ (st = "await" => outcome = "resolved")
          THEN /\ IF e2eStep = Len(Steps)
                  THEN Exit(0)
                  ELSE e2eStep' = e2eStep + 1 /\ UNCHANGED exitCode
               /\ registered' = registered \cup Registers(st)
               /\ deleted' = deleted \cup Deletes(st)
               /\ clients' =
                      [u \in Users |->
                          IF u \in Connects(st) THEN "connected"
                          ELSE IF u \in Disconnects(st) THEN "deactivated"
                          ELSE clients[u]]
               /\ IF st = "send"
                  THEN /\ polling' = TRUE
                       /\ outcome' = "pending"
                       /\ waited' = 0
                  ELSE UNCHANGED <<polling, outcome, waited>>
          ELSE /\ Exit(1)
               /\ clients' =
                      [u \in Users |->
                          IF u \in Connects(st) THEN "deactivated"
                          ELSE clients[u]]
               /\ UNCHANGED <<registered, deleted, polling, outcome, waited>>
    /\ last' = Op("main", 0)
    /\ UNCHANGED <<codec, ramp, config, provisioning, listeners, inbox,
                   resolvedWith, settles, now, pc, iter, userCreds,
                   globalPending, session, metrics, tornDown, events,
                   history>>

\* The receiver's subscription delivers a frame: inbox.push(body).
InboxPush(m) ==
    /\ e2eStep # 0
    /\ clients["receiver"] = "connected"
    /\ Len(inbox) < MaxInbox
    /\ inbox' = Append(inbox, m)
    /\ last' = Op("inboxPush", 0)
    /\ UNCHANGED <<codec, ramp, config, provisioning, listeners, e2eStep,
                   exitCode, registered, deleted, clients, polling, outcome,
                   resolvedWith, settles, waited, now, pc, iter, userCreds,
                   globalPending, session, metrics, tornDown, events,
                   history>>

\* Time passes while the interval is set.
WaitTick ==
    /\ e2eStep # 0
    /\ polling
    /\ waited < MaxWait
    /\ waited' = waited + 1
    /\ last' = Op("waitTick", 0)
    /\ UNCHANGED <<codec, ramp, config, provisioning, listeners, e2eStep,
                   exitCode, registered, deleted, clients, inbox, polling,
                   outcome, resolvedWith, settles, now, pc, iter, userCreds,
                   globalPending, session, metrics, tornDown, events,
                   history>>

\* The interval of waitForMessage fires: its callback runs once.
Poll ==
    /\ e2eStep # 0
    /\ polling
    /\ settles < MaxSettles
    /\ LET result == PollResult(inbox, waited) IN
       IF result = "pending"
       THEN UNCHANGED <<polling, outcome, resolvedWith, settles>>
       ELSE /\ polling' = ClearInterval(polling)
            /\ outcome' = Settle(outcome, result)
            /\ settles' = settles + 1
            /\ resolvedWith' =
                   IF outcome = "pending" /\ result = "resolved"
                   THEN FirstHit(inbox) ELSE resolvedWith
    /\ last' = Op("poll", 0)
    /\ UNCHANGED <<codec, ramp, config, provisioning, listeners, e2eStep,
                   exitCode, registered, deleted, clients, inbox, waited,
                   now, pc, iter, userCreds, globalPending, session, metrics,
                   tornDown, events, history>>

InitE2E ==
    /\ Constructed /\ script = "new" /\ refreshEnv = "unset"
    /\ regScript = "init" /\ chatScript = "init"

NextE2E ==
    \/ \E ok \in BOOLEAN : MainStep(ok)
    \/ \E m \in Messages : InboxPush(m)
    \/ WaitTick
    \/ Poll

\* Node runs a timer that is due: the interval keeps firing while it is
\* set, and time passes.
SpecE2E ==
    InitE2E /\ [][NextE2E]_vars /\ WF_vars(Poll) /\ WF_vars(WaitTick)

\* ------------------------------------------------------------- claims

NumSend(q) == Cardinality({i \in 1..Len(q) : q[i] = "SEND"})

\* RTT samples recorded / probes registered by VU v's latest session.
Rtts(v) == Sum(resN[v], Time)
Regs(v) == Sum(regN[v], Time)

\* The last step was VU v's message handler / send tick.
Handled(v) == last.op = "message" /\ last.vu = v
Ticked(v) == last.op = "tick" /\ last.vu = v

\* C1: a session in CONNECTING emits no SEND frame, and a send tick that
\* fires in CONNECTING sends nothing, registers no probe and leaves
\* messagesSent unchanged.
C1_NoSendWhileConnecting ==
    [][\A v \in VUs :
         state[v] = "CONNECTING" =>
           /\ NumSend(sent'[v]) <= NumSend(sent[v])
           /\ Ticked(v)' =>
                /\ sent'[v] = sent[v]
                /\ pending'[v] = pending[v]
                /\ messagesSent' = messagesSent]_vars

\* A send tick has fired in an open session that is still CONNECTING.
C1_Witness ==
    \E v \in VUs :
      /\ Ticked(v) /\ pc[v] = "session" /\ opened[v]
      /\ state[v] = "CONNECTING" /\ sent[v] = <<"CONNECT">>

\* C2: when a session has ended, its RTT samples plus the entries left in
\* its pending map equal the probes it registered, which equal the SEND
\* frames it emitted.
C2_ExactAccounting ==
    \A v \in VUs :
      pc[v] = "sleep" =>
        /\ Rtts(v) + Size(pending[v]) = Regs(v)
        /\ Regs(v) = NumSend(sent[v])

\* C3: the total teardown() reports is the sum, over every session of the
\* run, of the entries that session left in its pending map.
C3_TeardownCountsAllSessions ==
    tornDown => undeliveredMessages = abandoned

C5_ConnectingToChattingOnce ==
    [][\A v \in VUs :
         /\ (last'.op = "connect" /\ last'.vu = v) =>
              state'[v] = "CONNECTING"
         /\ (state[v] # "CHATTING" /\ state'[v] = "CHATTING") =>
              Handled(v)' /\ last'.frame.cmd = "CONNECTED"
         /\ (state[v] = "CHATTING" /\ pc'[v] \in {"session", "sleep"}) =>
              state'[v] = "CHATTING"]_vars

\* A CONNECTED frame has just moved a session to CHATTING.
C5_Witness ==
    \E v \in VUs :
      /\ Handled(v) /\ last.frame.cmd = "CONNECTED"
      /\ state[v] = "CHATTING" /\ sent[v] = <<"CONNECT", "SUBSCRIBE">>

\* C6: a CONNECTED frame received in CHATTING changes nothing: no
\* SUBSCRIBE, no directory fetch, no further refresh timer, and state,
\* chatIds and the pending map as before.
C6_DuplicateConnectedIgnored ==
    [][\A v \in VUs :
         (Handled(v)' /\ last'.frame.cmd = "CONNECTED"
            /\ state[v] = "CHATTING") =>
           /\ sent'[v] = sent[v]
           /\ getChatReq' = getChatReq
           /\ refreshTimers'[v] = refreshTimers[v]
           /\ state'[v] = state[v]
           /\ chatIds'[v] = chatIds[v]
           /\ pending'[v] = pending[v]]_vars

\* C7: in CONNECTING, a frame that is not CONNECTED adds exactly one to
\* stomp_error_count and leaves the state CONNECTING.
C7_UnexpectedFrameCounted ==
    [][\A v \in VUs :
         (Handled(v)' /\ last'.frame.cmd # "CONNECTED"
            /\ state[v] = "CONNECTING") =>
           /\ stompErrors' = stompErrors + 1
           /\ state'[v] = "CONNECTING"]_vars

\* C8: an ERROR frame, in CONNECTING or CHATTING, adds exactly one to
\* stomp_error_count, sends nothing and leaves state, chatIds and the
\* pending map unchanged.
C8_ErrorFrameCounted ==
    [][\A v \in VUs :
         (Handled(v)' /\ last'.frame.cmd = "ERROR") =>
           /\ stompErrors' = stompErrors + 1
           /\ sent'[v] = sent[v]
           /\ state'[v] = state[v]
           /\ chatIds'[v] = chatIds[v]
           /\ pending'[v] = pending[v]]_vars

\* C9: in k6-ws-new.js, a session that receives CONNECTED, then ERROR, then
\* a MESSAGE echoing one of its pending probes is CHATTING from CONNECTED
\* on, has counted one protocol error once ERROR is handled, and has
\* recorded exactly one RTT sample once the MESSAGE is handled.
C9_ScenarioB ==
    \A v \in VUs :
      script = "new" =>
        /\ scen[v] >= 1 => state[v] = "CHATTING"
        /\ scen[v] = 1 => sessErrs[v] = 0 /\ Rtts(v) = 0
        /\ scen[v] = 2 => sessErrs[v] = 1 /\ Rtts(v) = 0
        /\ scen[v] = 3 => sessErrs[v] = 1 /\ Rtts(v) = 1

\* The whole sequence CONNECTED, ERROR, matching MESSAGE has been handled.
C9_Witness ==
    \E v \in VUs :
      /\ script = "new" /\ scen[v] = 3 /\ Handled(v)
      /\ last.rtt >= 0 /\ NumSend(sent[v]) >= 1

\* C10: in k6-ws-new.js every RTT sample is at least 0 and at most
\* SESSION_TIME_MS.
C10_RttWithinLifetime ==
    script = "new" =>
      \A x \in BagToSet(msgRTT) : 0 <= x /\ x <= SESSION_TIME_MS

\* C11: decoding the encoding of (command, headers, body) gives back the
\* same command, the same headers and the same body, an absent body
\* included.
C11_RoundTrip ==
    decoded # NotDecoded =>
      /\ decoded.tag = "frame"
      /\ decoded.command = cin.command
      /\ decoded.headers = cin.headers
      /\ decoded.body = cin.body

\* The payload has no command line: its first line is empty.
NoCommandLine(raw) ==
    raw # <<>> /\ raw # <<LF>> /\ (raw[1] = LF \/ raw = <<NUL>>)

\* The handler of the payload on the wire left the session, the metrics
\* and the frames sent as they were.
NoAction(v) ==
    /\ UNCHANGED <<state[v], chatIds[v], pending[v], sent[v],
                   refreshTimers[v], pc[v], metrics, now>>

\* C12: a payload without a command line decodes to null, and the message
\* handler does nothing for it.
C12_MalformedYieldsNull ==
    /\ [](NoCommandLine(wire) => parseStompFrame(wire) = Null)
    /\ [][\A v \in VUs :
            (Handled(v)' /\ NoCommandLine(wire)) => NoAction(v)]_vars

\* C13: the payload '\n' decodes to the heartbeat marker, not to a frame,
\* and handling it in CONNECTING or CHATTING changes no session state, no
\* metric, no chat id and no pending entry, and sends nothing.
C13_HeartbeatIgnored ==
    /\ [](wire = <<LF>> =>
            /\ parseStompFrame(wire) = HeartbeatMarker
            /\ parseStompFrame(wire).tag # "frame")
    /\ [][\A v \in VUs :
            (Handled(v)' /\ wire = <<LF>>) => NoAction(v)]_vars

\* A heartbeat has been handled by a CHATTING session with a pending probe.
C13_Witness ==
    /\ Handled(1) /\ wire = <<LF>>
    /\ last.frame.cmd = "HEARTBEAT"
    /\ state[1] = "CHATTING" /\ pending[1] # EmptyMap

\* The last step was a failed sign-in or a failed getTicket of VU v.
AuthFailed(v) ==
    last.op \in {"signinFailed", "ticketFailed"} /\ last.vu = v

\* C14: a failed sign-in or getTicket ends the iteration at once: exactly
\* one error is counted, no socket is opened, no frame is sent, and the
\* iteration issues no further request.
C14_AuthFailureAborts ==
    [][\A v \in VUs :
         AuthFailed(v)' =>
           /\ wsErrors' = wsErrors + 1
           /\ pc'[v] = "start"
           /\ nSessions'[v] = nSessions[v]
           /\ opened'[v] = opened[v] /\ ~opened'[v]
           /\ sent'[v] = sent[v]]_vars

\* C15: once a VU has signed in, its cached credentials never change and
\* no later iteration of that VU issues a sign-in request: every later
\* iteration starts from the cache.
C15_CredentialsCached ==
    [][\A v \in VUs :
         userCreds[v] # NoCreds =>
           /\ userCreds'[v] = userCreds[v]
           /\ ~(last'.vu = v /\ last'.op \in {"signin", "signinFailed"})
           /\ iter'[v] # iter[v] => (last'.op = "cached" /\ last'.vu = v)]_vars

\* A second iteration of a VU has started from the cached credentials.
C15_Witness ==
    \E v \in VUs :
      /\ last.op = "cached" /\ last.vu = v
      /\ iter[v] = 2 /\ userCreds[v] = [userId |-> v, jwt |-> 1]
      /\ pc[v] = "ticket"

\* The last step was VU v's ws.connect call.
Connected(v) == last.op \in {"connect", "connectFailed"} /\ last.vu = v

\* C16: ws.connect is called only with the ticket that getTicket returned
\* in the same iteration, after the credentials were there; the call uses
\* the ticket up, so no second connection attempt is made with it.
C16_FreshTicketPerAttempt ==
    [][\A v \in VUs :
         /\ Connected(v)' => (pc[v] = "connect" /\ pc'[v] # "connect")
         /\ (pc[v] # "connect" /\ pc'[v] = "connect") =>
              /\ last'.op = "ticket" /\ last'.vu = v
              /\ userCreds[v] # NoCreds /\ iter'[v] = iter[v]
         /\ pc[v] = "connect" =>
              /\ iter'[v] = iter[v]
              /\ pc'[v] # "connect" => Connected(v)']_vars

\* A VU's second connection attempt has been made, after its second
\* getTicket.
C16_Witness ==
    \E v \in VUs : Connected(v) /\ iter[v] = 2 /\ nSessions[v] >= 1

\* C17: in k6-ws-new.js a session whose socket has opened is closed by its
\* own timeout no later than SESSION_TIME_MS after the open event: no
\* session is still open after its deadline.
C17_ClosedWithinLifetime ==
    script = "new" =>
      \A v \in VUs :
        (pc[v] = "session" /\ opened[v]) => now <= deadline[v]

\* Sessions whose socket is open.
Live == Cardinality({v \in VUs : pc[v] = "session" /\ opened[v]})

\* Every VU has had the time to follow the target: a VU within the target
\* is in an open session or in the sleep(1) after one, a VU above it has
\* no session.
Settled ==
    \A v \in VUs :
      IF v <= ramp.target
      THEN pc[v] \in {"session", "sleep"} /\ (pc[v] = "session" => opened[v])
      ELSE pc[v] # "session"

\* C18: at every stage the number of live sessions is the stage's target
\* one clock tick later (0 after the ramp-down), once the VUs have had the
\* time to follow the target.
C18_LiveTracksTarget ==
    [][(last'.op = "clock" /\ Settled) => Live' = ramp'.target]_vars

C20_ClosedIsTerminal ==
    /\ [][\A v \in VUs :
            /\ (pc[v] = "sleep" /\ pc'[v] = "sleep") =>
                 UNCHANGED <<state[v], chatIds[v], pending[v], sent[v],
                             refreshTimers[v]>>
            /\ pc[v] # "session" =>
                 /\ ~(last'.vu = v
                      /\ last'.op \in {"message", "tick", "refresh"})
                 /\ NumSend(sent'[v]) <= NumSend(sent[v])
                 /\ (pending'[v] # pending[v]) => Connected(v)']_vars
    /\ [](tornDown => undeliveredMessages = abandoned)

\* The last step was taken by VU v: its default function, or a handler or
\* timer of its session.
StepOf(v) == last.vu = v

\* C21: a step of one VU, a failed sign-in, a failed getTicket, a transport
\* error and a protocol error included, leaves the cached credentials, the
\* session state, the chatIds and the pending map of every other VU
\* unchanged.
C21_FailuresAreLocal ==
    [][\A v \in VUs : \A w \in VUs \ {v} :
         StepOf(v)' =>
           /\ userCreds'[w] = userCreds[w]
           /\ state'[w] = state[w]
           /\ chatIds'[w] = chatIds[w]
           /\ pending'[w] = pending[w]]_vars

\* A VU's getTicket has failed while another VU is CHATTING with a probe
\* pending.
C21_Witness ==
    \E v \in VUs : \E w \in VUs \ {v} :
      /\ last.op = "ticketFailed" /\ last.vu = v
      /\ pc[w] = "session" /\ state[w] = "CHATTING"
      /\ chatIds[w] # <<>> /\ pending[w] # EmptyMap
      /\ userCreds[w] # NoCreds

\* C22: the message handler resolves a pending probe (records an RTT
\* sample, deletes the entry) only for a MESSAGE frame that carries
\* ping:<nonce> and whose sender is the session's own user; a MESSAGE from
\* another sender leaves the pending map and the RTT samples as they were,
\* whatever nonce it carries.
C22_ResolvedOnlyByOwnEcho ==
    [][\A v \in VUs :
         Handled(v)' =>
           /\ (pending'[v] # pending[v] \/ msgRTT' # msgRTT) =>
                /\ last'.frame.cmd = "MESSAGE"
                /\ last'.frame.nonce # NoNonce
                /\ last'.frame.sender = "self"
           /\ (last'.frame.cmd = "MESSAGE" /\ last'.frame.sender # "self") =>
                /\ pending'[v] = pending[v]
                /\ msgRTT' = msgRTT]_vars

C24_FrameOrder ==
    /\ [](\A v \in VUs :
            LET q == sent[v] IN
            /\ q # <<>> => q[1] = "CONNECT"
            /\ \A i \in 1..Len(q) :
                 /\ q[i] = "SUBSCRIBE" => \E j \in 1..(i - 1) : q[j] = "CONNECT"
                 /\ q[i] = "SEND" => \E j \in 1..(i - 1) : q[j] = "SUBSCRIBE")
    /\ [][\A v \in VUs :
            /\ (last'.op = "open" /\ last'.vu = v) => sent'[v] = <<"CONNECT">>
            /\ (Handled(v)' /\ last'.frame.cmd = "CONNECTED"
                   /\ state[v] = "CONNECTING") =>
                 /\ sent'[v] = Append(sent[v], "SUBSCRIBE")
                 /\ subscribed'[v] = userCreds[v].userId
                 /\ subscribed'[v] = v]_vars

\* A session has sent CONNECT, SUBSCRIBE to its own queue, and a SEND.
C24_Witness ==
    \E v \in VUs :
      /\ sent[v] = <<"CONNECT", "SUBSCRIBE", "SEND">>
      /\ subscribed[v] = v /\ Ticked(v)

\* C25: a send tick in CHATTING with a non-empty chatIds sends exactly one
\* SEND frame whose chatId is an element of chatIds and whose text is
\* ping:<nonce>, registers that nonce with the time of the send in the
\* pending map (the other entries stay), and adds exactly one to
\* messages_sent_total; a tick with an empty chatIds sends nothing and
\* changes no session state and no counter.
C25_TickSendsOneProbe ==
    [][\A v \in VUs :
         Ticked(v)' =>
           IF state[v] = "CHATTING" /\ chatIds[v] # <<>>
           THEN LET n == last'.frame.nonce IN
                /\ sent'[v] = Append(sent[v], "SEND")
                /\ last'.frame.cmd = "SEND" /\ n # NoNonce
                /\ \E i \in 1..Len(chatIds[v]) : last'.chatId = chatIds[v][i]
                /\ DOMAIN pending'[v] = DOMAIN pending[v] \cup {n}
                /\ pending'[v][n] = now
                /\ \A m \in DOMAIN pending[v] \ {n} :
                     pending'[v][m] = pending[v][m]
                /\ messagesSent' = messagesSent + 1
                /\ UNCHANGED <<state[v], chatIds[v], wsErrors, stompErrors,
                               msgRTT, messagesReceived, getChatReq>>
           ELSE UNCHANGED <<state[v], chatIds[v], pending[v], sent[v],
                            metrics>>]_vars

\* A tick has sent a probe to the second of two chats, at time 1.
C25_Witness ==
    \E v \in VUs :
      /\ Ticked(v) /\ last.frame.cmd = "SEND" /\ last.frame.nonce = 1
      /\ chatIds[v] = <<1, 2>> /\ last.chatId = 2
      /\ pending[v] = (1 :> 1) /\ messagesSent = 1

\* C26: with CHAT_REFRESH_MS set to 0 the periodic refresh is off:
\* handling CONNECTED registers no refresh timer, no refresh runs, and
\* getChats is called once in the session, for the initial fetch.
C26_ZeroDisablesRefresh ==
    refreshEnv = "0" =>
      /\ \A v \in VUs : refreshTimers[v] = 0
      /\ last.op # "refresh"
      /\ getChatReq <= 1

\* C27: the session of k6-ws-new-min.js steps as the session of the second
\* script of ws-script.js ("old") would from the same state on the same
\* input: the message handler leaves the same state, chatIds, frames sent,
\* pending map and counter increments, and the send timer sends in the
\* same cases.
C27_MinStepsAsOld ==
    [][\A v \in VUs :
         /\ Handled(v)' =>
              LET f == last'.frame
                  st == state[v]
                  p == pending[v]
                  con == st = "CONNECTING" /\ f.cmd = "CONNECTED"
                  err == st = "CONNECTING" /\ f.cmd # "CONNECTED"
                  ping == st = "CHATTING" /\ HasPing(f)
                  hit == ping /\ f.nonce \in DOMAIN p
              IN
              /\ state'[v] = IF con THEN "CHATTING" ELSE st
              /\ sent'[v] = IF con THEN Append(sent[v], "SUBSCRIBE")
                            ELSE sent[v]
              /\ chatIds'[v] =
                   IF con THEN ChatsAfterFetch("old", chatIds[v], last'.chats)
                   ELSE chatIds[v]
              /\ getChatReq' = getChatReq + (IF con THEN 1 ELSE 0)
              /\ stompErrors' = stompErrors + (IF err THEN 1 ELSE 0)
              /\ messagesReceived' = messagesReceived + (IF ping THEN 1 ELSE 0)
              /\ pending'[v] = IF hit THEN Delete(p, f.nonce) ELSE p
              /\ Samples(msgRTT') = Samples(msgRTT) + (IF hit THEN 1 ELSE 0)
         /\ Ticked(v)' =>
              (sent'[v] # sent[v]) =
                (state[v] = "CHATTING" /\ Len(chatIds[v]) # 0)]_vars

\* C28: the nonce of a probe is the millisecond of its send, so two ticks
\* of a session in the same millisecond mint the same nonce.  The second
\* registration then replaces the first: the pending map keeps one entry
\* for the nonce while messages_sent_total has grown by one for each
\* tick, and one matching echo removes that only entry.
C28_CollidingNonceOverwrites ==
    [][\A v \in VUs :
         /\ (Ticked(v)' /\ last'.frame.cmd = "SEND") =>
              LET n == last'.frame.nonce IN
              /\ n = now
              /\ n \in DOMAIN pending[v] =>
                   /\ DOMAIN pending'[v] = DOMAIN pending[v]
                   /\ pending'[v][n] = now
                   /\ messagesSent' = messagesSent + 1
                   /\ regN'[v][n] = regN[v][n] + 1 /\ regN'[v][n] >= 2
         /\ (Handled(v)' /\ last'.rtt # -1) =>
              LET n == last'.frame.nonce IN
              /\ n \notin DOMAIN pending'[v]
              /\ Size(pending'[v]) = Size(pending[v]) - 1
              /\ Samples(msgRTT') = Samples(msgRTT) + 1]_vars

\* Two ticks in the same millisecond registered one nonce twice, and one
\* echo has emptied the pending map.
C28_Witness ==
    \E v \in VUs : \E n \in Time :
      /\ regN[v][n] = 2 /\ resN[v][n] = 1 /\ messagesSent = 2
      /\ NumSend(sent[v]) = 2 /\ pending[v] = EmptyMap
      /\ Handled(v) /\ last.frame.nonce = n /\ last.rtt # -1
      /\ Samples(msgRTT) = 1

\* C29: the handler of CONNECTED runs as one event.  The step that makes a
\* session CHATTING is the step in which the initial getChats call returns
\* and chatIds receives its response, so every send tick that finds the
\* session CHATTING comes after a completed fetch, and a tick that sends
\* picks a chat of a fetched list.
C29_FetchBeforeFirstTick ==
    /\ [][\A v \in VUs :
            /\ (state[v] # "CHATTING" /\ state'[v] = "CHATTING") =>
                 /\ Handled(v)'
                 /\ getChatReq' = getChatReq + 1
                 /\ chatIds'[v] = last'.chats
            /\ (Ticked(v)' /\ state[v] = "CHATTING") =>
                 /\ getChatReq >= 1
                 /\ \E i \in 1..Len(sent[v]) : sent[v][i] = "SUBSCRIBE"
                 /\ chatIds'[v] = chatIds[v]]_vars
    /\ [](\A v \in VUs :
            (pc[v] = "session" /\ state[v] = "CHATTING") => getChatReq >= 1)

\* A send tick has sent a probe after an initial fetch that took time.
C29_Witness ==
    /\ Ticked(1) /\ last.frame.cmd = "SEND" /\ state[1] = "CHATTING"
    /\ getChatReq = 1 /\ now >= 1 /\ deadline[1] = SESSION_TIME_MS
    /\ chatIds[1] = <<1, 2>> /\ last.frame.nonce = now

\* C30: in the registration stage a VU issues registerUser in at most one
\* of its iterations: an iteration after the first issues no registerUser
\* and no signin request.
C30_RegistersOnce ==
    /\ [](\A v \in VUs : registerReqs[v] <= 1)
    /\ [][\A v \in VUs :
            regIter[v] > 0 =>
              /\ registerReqs'[v] = registerReqs[v]
              /\ signinReqs'[v] = signinReqs[v]]_vars

\* C31: a virtual user never creates a chat with itself: the peer of every
\* createChat request differs from the requesting VU and lies in
\* 1..TOTAL_USERS.
C31_NeverChatsWithItself ==
    \A v \in VUs : peer[v] # 0 => peer[v] # v /\ peer[v] \in 1..TOTAL_USERS

\* C32: in the two-stage init script chat creation starts only after
\* registration has completed: no createChats iteration begins while a
\* registerUsers iteration is still running.
C32_ChatsAfterRegistration ==
    [][last'.op = "createChatsBegin" => \A v \in VUs : regPc[v] = "idle"]_vars

\* C33: a chat-directory refresh that fails leaves the session's chatIds
\* as they were, so a session that could send before it can send after it.
C33_FailedRefreshKeepsChats ==
    [][\A v \in VUs :
          last'.op = "refresh" /\ last'.vu = v /\ ~last'.fetched
              => chatIds'[v] = chatIds[v]]_vars

\* C34: in the first script of ws-script.js a received frame adds at most
\* one to messages_received_total, and a sent ping contributes at most
\* one RTT sample, however many send ticks fired before the frame.
C34_CountedOncePerFrame ==
    /\ [](\A v \in VUs, n \in Time : resN[v][n] <= regN[v][n])
    /\ [][last'.op = "firstMessage"
             => messagesReceived' <= messagesReceived + 1]_vars

\* C35: between two consecutive session attempts of a virtual user there
\* is the iteration's sleep: a VU whose iteration ends, also one that
\* aborts on a failed sign-in or ticket request, becomes ready for its next
\* attempt only through the sleep.
C35_PauseBetweenAttempts ==
    [][\A v \in VUs :
          (iter'[v] > iter[v] \/ pc[v] # "start") /\ pc'[v] = "start"
              => last'.op = "sleep" /\ last'.vu = v]_vars

\* C36: while a session is CONNECTING the frames it receives change
\* neither messages_received_total nor the RTT distribution nor the
\* pending map.
C36_ConnectingRecordsNothing ==
    [][\A v \in VUs :
          last'.op = "message" /\ last'.vu = v /\ state[v] = "CONNECTING"
              => /\ messagesReceived' = messagesReceived
                 /\ msgRTT' = msgRTT
                 /\ pending'[v] = pending[v]]_vars

\* The promise of waitForMessage is settled.
PromiseSettled == outcome \in {"resolved", "timeout", "error"}

\* The inbox holds no message the predicate accepts.
NoMatch(box) == \A i \in 1..Len(box) : box[i] # "match"

\* Settling once, with the timer cancelled, for good.
SettlesOnce ==
    /\ [](settles <= 1 /\ (PromiseSettled => ~polling /\ settles = 1))
    /\ [][PromiseSettled => outcome' = outcome /\ ~polling']_vars
    /\ [][outcome' = "resolved" /\ outcome = "pending"
             => /\ inbox[resolvedWith'] = "match"
                /\ NoMatch(SubSeq(inbox, 1, resolvedWith' - 1))]_vars
    /\ (outcome = "pending" ~> PromiseSettled)

\* C37 as stated: the promise of waitForMessage settles exactly once; it
\* resolves with the first inbox message that satisfies the predicate, or
\* rejects once WS_MESSAGE_TIMEOUT_MS has elapsed with no matching
\* message; it settles eventually, and its timer is then cancelled.
C37_SettlesOnceAsStated ==
    /\ SettlesOnce
    /\ [][outcome = "pending" /\ outcome' \in {"timeout", "error"}
             => waited > WS_MESSAGE_TIMEOUT_MS /\ NoMatch(inbox)]_vars

\* C37, amended: the promise of waitForMessage settles exactly once; it
\* resolves with the first inbox message that satisfies the predicate,
\* rejects once WS_MESSAGE_TIMEOUT_MS has elapsed with no matching
\* message, or rejects with the error the predicate threw on a message
\* that precedes every matching one; it settles eventually, and its timer
\* is then cancelled.
C37_SettlesOnce ==
    /\ SettlesOnce
    /\ [][outcome = "pending" /\ outcome' = "timeout"
             => waited > WS_MESSAGE_TIMEOUT_MS /\ NoMatch(inbox)]_vars
    /\ [][outcome = "pending" /\ outcome' = "error"
             => \E i \in 1..Len(inbox) :
                    /\ inbox[i] = "bad"
                    /\ NoMatch(SubSeq(inbox, 1, i))]_vars

\* The promise resolved with a matching message that was not the first
\* message of the inbox.
C37_Witness == outcome = "resolved" /\ resolvedWith > 1

\* C38: a run of the end-to-end script that has registered its two users
\* has, when it ends, deleted them and disconnected every STOMP client it
\* connected, also when an intermediate step failed.
C38_CleansUp ==
    (exitCode # -1 /\ registered = Users)
        => /\ deleted = Users
           /\ \A u \in Users : clients[u] # "connected"

====
